---------------------------- MODULE Spec2Model ----------------------------
(***************************************************************************)
(* lambda-web: translation of API Gateway / ALB Lambda events into web     *)
(* framework requests and of framework responses into Lambda JSON          *)
(* envelopes (src/request.rs, src/hyper014.rs, src/rocket05.rs,            *)
(* src/warp03.rs, src/brotli.rs).                                          *)
(*                                                                         *)
(* Strings and byte buffers are sequences of byte values 0..255, so that   *)
(* percent-encoding, base64, case folding and splitting act on bytes as    *)
(* the code does.  A text next to a literal gives its reading.             *)
(***************************************************************************)
EXTENDS Integers, Sequences, FiniteSets, TLC

(***************************************************************************)
(* Bounds of the model                                                     *)
(***************************************************************************)
\* longest generated path tail (bytes after the leading '/')
MaxPathLen == 2
\* most header lines in a framework response
MaxHeaders == 2

(***************************************************************************)
(* Byte string helpers (std::str / Vec<u8> operations used by the code)    *)
(***************************************************************************)
\* Option<T>: None is the empty sequence, Some(x) the sequence of x alone
None == <<>>
Some(x) == <<x>>
IsSome(o) == o # <<>>
Unwrap(o) == o[1]
UnwrapOr(o, d) == IF o # <<>> THEN o[1] ELSE d

Range(s) == { s[i] : i \in 1..Len(s) }

\* s with its first n elements removed
Drop(s, n) == SubSeq(s, n + 1, Len(s))

\* str::starts_with
StartsWith(s, p) == Len(p) <= Len(s) /\ SubSeq(s, 1, Len(p)) = p

\* concatenation of a sequence of strings
RECURSIVE Concat(_)
Concat(ss) == IF ss = <<>> THEN <<>> ELSE Head(ss) \o Concat(Tail(ss))

\* [String]::join(sep)
RECURSIVE Join(_, _)
Join(ss, sep) ==
    IF ss = <<>> THEN <<>>
    ELSE IF Len(ss) = 1 THEN ss[1]
    ELSE ss[1] \o sep \o Join(Tail(ss), sep)

\* index of the first occurrence of byte c in s, 0 when there is none
FirstIndex(s, c) ==
    IF c \in Range(s) THEN CHOOSE i \in 1..Len(s) : s[i] = c /\ \A j \in 1..(i - 1) : s[j] # c
    ELSE 0

\* str::split(c): the pieces of s between occurrences of byte c
RECURSIVE Split(_, _)
Split(s, c) ==
    LET i == FirstIndex(s, c)
    IN  IF i = 0 THEN <<s>> ELSE <<SubSeq(s, 1, i - 1)>> \o Split(Drop(s, i), c)

\* u8::to_ascii_lowercase / str::to_ascii_lowercase
LowerByte(b) == IF b >= 65 /\ b <= 90 THEN b + 32 ELSE b
to_ascii_lowercase(s) == [i \in 1..Len(s) |-> LowerByte(s[i])]

\* str::trim on the ASCII white space the model's inputs can hold
IsSpace(b) == b \in {9, 10, 11, 12, 13, 32}
RECURSIVE TrimStart(_)
TrimStart(s) == IF s # <<>> /\ IsSpace(Head(s)) THEN TrimStart(Tail(s)) ELSE s
RECURSIVE TrimEnd(_)
TrimEnd(s) ==
    IF s # <<>> /\ IsSpace(s[Len(s)]) THEN TrimEnd(SubSeq(s, 1, Len(s) - 1)) ELSE s
trim(s) == TrimEnd(TrimStart(s))

\* all sequences over S of length at most n
SeqsUpTo(S, n) == UNION { [1..k -> S] : k \in 0..n }

\* all orders in which the elements of a finite set can be visited
RECURSIVE Orders(_)
Orders(S) ==
    IF S = {} THEN { <<>> }
    ELSE UNION { { <<x>> \o o : o \in Orders(S \ {x}) } : x \in S }

(***************************************************************************)
(* Percent-encoding codec (src/request.rs, RFC3986_PATH_ESCAPE_SET)        *)
(***************************************************************************)
\* percent_encoding::CONTROLS: C0 controls and DEL
CONTROLS == (0..31) \cup {127}

\* the escape set with '%' left out (a faulty variant of the set below)
EscapeSetWithoutPercent ==
    CONTROLS \cup {32, 34, 35, 43, 58, 60, 62, 63, 64, 91, 92, 93, 94, 96, 123, 124, 125}

\* CONTROLS .add(b' ') .add(b'"') .add(b'#') .add(b'%') .add(b'+') .add(b':')
\* .add(b'<') .add(b'>') .add(b'?') .add(b'@') .add(b'[') .add(b'\\') .add(b']')
\* .add(b'^') .add(b'`') .add(b'{') .add(b'|') .add(b'}')
RFC3986_PATH_ESCAPE_SET ==
    CONTROLS \cup {32, 34, 35, 37, 43, 58, 60, 62, 63, 64, 91, 92, 93, 94, 96, 123, 124, 125}

\* upper-case hexadecimal digit of a nibble
HexDigit(n) == IF n < 10 THEN 48 + n ELSE 55 + n

\* "%XX" of one byte
PercentEscape(b) == <<37, HexDigit(b \div 16), HexDigit(b % 16)>>

\* utf8_percent_encode: a byte outside ASCII or in the set becomes %XX
PercentEncodeByte(b, set) == IF b >= 128 \/ b \in set THEN PercentEscape(b) ELSE <<b>>

\* encode_path_query applied to its own output (a faulty variant)
encode_path_query_twice(pathstr) ==
    LET once == Concat([i \in 1..Len(pathstr) |->
                           PercentEncodeByte(pathstr[i], RFC3986_PATH_ESCAPE_SET)])
    IN  Concat([i \in 1..Len(once) |-> PercentEncodeByte(once[i], RFC3986_PATH_ESCAPE_SET)])

encode_path_query(pathstr) ==
    Concat([i \in 1..Len(pathstr) |-> PercentEncodeByte(pathstr[i], RFC3986_PATH_ESCAPE_SET)])

(***************************************************************************)
(* base64 (the base64 crate's STANDARD alphabet, used by body() and by     *)
(* the response serializers)                                               *)
(***************************************************************************)
\* symbol of a 6-bit value: A-Z a-z 0-9 + /
B64Char(v) ==
    IF v < 26 THEN 65 + v
    ELSE IF v < 52 THEN 71 + v
    ELSE IF v < 62 THEN v - 4
    ELSE IF v = 62 THEN 43 ELSE 47

IsB64Char(c) ==
    \/ (c >= 65 /\ c <= 90)
    \/ (c >= 97 /\ c <= 122)
    \/ (c >= 48 /\ c <= 57)
    \/ c \in {43, 47}

\* 6-bit value of a symbol
B64Val(c) ==
    IF c >= 65 /\ c <= 90 THEN c - 65
    ELSE IF c >= 97 /\ c <= 122 THEN c - 71
    ELSE IF c >= 48 /\ c <= 57 THEN c + 4
    ELSE IF c = 43 THEN 62 ELSE 63

\* base64::encode: three bytes to four symbols, '=' padding at the end
RECURSIVE Base64Encode(_)
Base64Encode(b) ==
    IF Len(b) = 0 THEN <<>>
    ELSE IF Len(b) = 1 THEN
        <<B64Char(b[1] \div 4), B64Char((b[1] % 4) * 16), 61, 61>>
    ELSE IF Len(b) = 2 THEN
        <<B64Char(b[1] \div 4), B64Char((b[1] % 4) * 16 + b[2] \div 16),
          B64Char((b[2] % 16) * 4), 61>>
    ELSE
        <<B64Char(b[1] \div 4), B64Char((b[1] % 4) * 16 + b[2] \div 16),
          B64Char((b[2] % 16) * 4 + b[3] \div 64), B64Char(b[3] % 64)>>
        \o Base64Encode(Drop(b, 3))

\* s without its trailing '=' bytes
RECURSIVE StripPad(_)
StripPad(s) ==
    IF s # <<>> /\ s[Len(s)] = 61 THEN StripPad(SubSeq(s, 1, Len(s) - 1)) ELSE s

\* bytes of a run of symbols whose length is not 1 modulo 4
RECURSIVE DecodeSymbols(_)
DecodeSymbols(c) ==
    IF Len(c) < 2 THEN <<>>
    ELSE IF Len(c) = 2 THEN
        <<B64Val(c[1]) * 4 + B64Val(c[2]) \div 16>>
    ELSE IF Len(c) = 3 THEN
        <<B64Val(c[1]) * 4 + B64Val(c[2]) \div 16,
          (B64Val(c[2]) % 16) * 16 + B64Val(c[3]) \div 4>>
    ELSE
        <<B64Val(c[1]) * 4 + B64Val(c[2]) \div 16,
          (B64Val(c[2]) % 16) * 16 + B64Val(c[3]) \div 4,
          (B64Val(c[3]) % 4) * 64 + B64Val(c[4])>>
        \o DecodeSymbols(Drop(c, 4))

\* bits of the last symbol that belong to no byte
TrailingBits(c) ==
    IF Len(c) % 4 = 2 THEN B64Val(c[Len(c)]) % 16
    ELSE IF Len(c) % 4 = 3 THEN B64Val(c[Len(c)]) % 4
    ELSE 0

\* base64::decode: Ok(bytes) or Err(DecodeError).  '=' is accepted only as
\* the third or fourth symbol of the last quad; the symbols before it must
\* be of the alphabet, not leave a single symbol over, and leave no bits.
Base64Decode(s) ==
    LET core == StripPad(s)
        padsOk == \A i \in (Len(core) + 1)..Len(s) : (i - 1) % 4 >= 2
    IN  IF /\ padsOk
           /\ \A i \in 1..Len(core) : IsB64Char(core[i])
           /\ Len(core) % 4 # 1
           /\ TrailingBits(core) = 0
        THEN [ok |-> TRUE, bytes |-> DecodeSymbols(core)]
        ELSE [ok |-> FALSE, bytes |-> <<>>]

(***************************************************************************)
(* LambdaHttpEvent and its accessors (src/request.rs)                      *)
(*                                                                         *)
(* An event is a record whose field variant is "ApiGatewayHttpV2" or       *)
(* "ApiGatewayRestOrAlb"; its other fields are those of the Rust struct    *)
(* of that variant.  A HashMap is a function on its key set; the order in  *)
(* which the code iterates over one is a parameter of the accessor, chosen *)
(* by the action that calls it.                                            *)
(***************************************************************************)
IsV2(event) == event.variant = "ApiGatewayHttpV2"
IsRestOrAlb(event) == event.variant = "ApiGatewayRestOrAlb"
\* RestOrAlbRequestContext::Rest(_) matches
IsRest(event) == IsRestOrAlb(event) /\ event.request_context.variant = "Rest"
IsAlb(event) == IsRestOrAlb(event) /\ event.request_context.variant = "Alb"

\* HashMap::get
MapGet(map, k) == IF k \in DOMAIN map THEN Some(map[k]) ELSE None

method(event) ==
    IF IsV2(event) THEN event.request_context.http.method ELSE event.http_method

hostname(event) ==
    IF IsV2(event) THEN Some(event.request_context.domain_name)
    ELSE IF IsRest(event) THEN Some(event.request_context.domain_name)
    ELSE LET host_headers == MapGet(event.multi_value_headers, <<104, 111, 115, 116>>)  \* "host"
         IN  IF IsSome(host_headers) /\ Unwrap(host_headers) # <<>>
             THEN Some(Unwrap(host_headers)[1])
             ELSE None

\* QueryItems with the values left unencoded (a faulty variant)
QueryItemsRawValues(params, korder) ==
    Concat([i \in 1..Len(korder) |->
        [j \in 1..Len(params[korder[i]]) |->
            encode_path_query(korder[i]) \o <<61>> \o params[korder[i]][j]]])

\* QueryItems escaping '/' too in keys and values (a faulty variant)
QueryItemsSlashEscaped(params, korder) ==
    Concat([i \in 1..Len(korder) |->
        LET enc(s) == Concat([n \in 1..Len(s) |->
                         PercentEncodeByte(s[n], RFC3986_PATH_ESCAPE_SET \cup {47})])
        IN  [j \in 1..Len(params[korder[i]]) |->
                enc(korder[i]) \o <<61>> \o enc(params[korder[i]][j])]])

\* the key=value items of a multi-value query map, keys visited in order korder
QueryItems(params, korder) ==
    Concat([i \in 1..Len(korder) |->
        LET k_enc == encode_path_query(korder[i])
            vec == params[korder[i]]
        IN  [j \in 1..Len(vec) |-> k_enc \o <<61>> \o encode_path_query(vec[j])]])

\* RestOrAlbPath taking the top-level path, without stage, for REST too (a faulty variant)
RestOrAlbPathTopLevel(event) == event.path

\* RestOrAlbPath passing the path through the codec (a faulty variant)
RestOrAlbPathEncoded(event) ==
    encode_path_query(IF IsRest(event) THEN event.request_context.path ELSE event.path)

\* the path a RestOrAlb event is routed by
RestOrAlbPath(event) ==
    IF IsRest(event) THEN event.request_context.path  \* contains the stage prefix
    ELSE event.path                                     \* ALB

\* path_query with the raw query string passed through the codec (a faulty variant)
path_query_encoding_raw_query(event, korder) ==
    IF IsV2(event) THEN
        LET path == encode_path_query(event.raw_path)
            query == UnwrapOr(event.raw_query_string, <<>>)
        IN  IF query = <<>> THEN path ELSE path \o <<63>> \o encode_path_query(query)
    ELSE
        LET path == RestOrAlbPath(event)
        IN  IF IsSome(event.multi_value_query_string_parameters) THEN
                path \o <<63>> \o
                Join(QueryItems(Unwrap(event.multi_value_query_string_parameters), korder), <<38>>)
            ELSE path

\* URL encoded path?query; korder is the order in which the query map is iterated
path_query(event, korder) ==
    IF IsV2(event) THEN
        LET path == encode_path_query(event.raw_path)
            query == UnwrapOr(event.raw_query_string, <<>>)
        IN  IF query = <<>> THEN path                   \* no query string
            ELSE path \o <<63>> \o query                \* "{}?{}"
    ELSE
        LET path == RestOrAlbPath(event)
        IN  IF IsSome(event.multi_value_query_string_parameters) THEN
                path \o <<63>> \o
                Join(QueryItems(Unwrap(event.multi_value_query_string_parameters), korder), <<38>>)
            ELSE path

\* the iteration orders of the query map of an event
QueryKeyOrders(event) ==
    IF IsRestOrAlb(event) /\ IsSome(event.multi_value_query_string_parameters)
    THEN Orders(DOMAIN Unwrap(event.multi_value_query_string_parameters))
    ELSE { <<>> }

\* headers giving the first value of every multiValueHeaders entry only (a
\* faulty variant)
headers_first_value_only(event, horder) ==
    IF IsV2(event) THEN
        [i \in 1..Len(horder) |-> <<horder[i], event.headers[horder[i]]>>]
        \o (IF IsSome(event.cookies)
            THEN << <<(<<99, 111, 111, 107, 105, 101>>), Join(Unwrap(event.cookies), <<59, 32>>)>> >>
            ELSE <<>>)
    ELSE
        Concat([i \in 1..Len(horder) |->
            IF event.multi_value_headers[horder[i]] = <<>> THEN <<>>
            ELSE << <<horder[i], event.multi_value_headers[horder[i]][1]>> >>])

\* headers without the cookie pair of the HttpApiV2 cookies (a faulty variant)
headers_without_cookie(event, horder) ==
    IF IsV2(event) THEN
        [i \in 1..Len(horder) |-> <<horder[i], event.headers[horder[i]]>>]
    ELSE
        Concat([i \in 1..Len(horder) |->
            [j \in 1..Len(event.multi_value_headers[horder[i]]) |->
                <<horder[i], event.multi_value_headers[horder[i]][j]>>]])

\* HTTP headers as (name, value) pairs; horder is the order in which the map is iterated
headers(event, horder) ==
    IF IsV2(event) THEN
        [i \in 1..Len(horder) |-> <<horder[i], event.headers[horder[i]]>>]
        \o (IF IsSome(event.cookies)
            THEN << <<(<<99, 111, 111, 107, 105, 101>>), Join(Unwrap(event.cookies), <<59, 32>>)>> >>
            ELSE <<>>)
    ELSE
        Concat([i \in 1..Len(horder) |->
            [j \in 1..Len(event.multi_value_headers[horder[i]]) |->
                <<horder[i], event.multi_value_headers[horder[i]][j]>>]])

HeaderKeyOrders(event) ==
    IF IsV2(event) THEN Orders(DOMAIN event.headers)
    ELSE Orders(DOMAIN event.multi_value_headers)

\* percent encoded "key=val" cookies
cookies(event) ==
    IF IsV2(event) THEN UnwrapOr(event.cookies, <<>>)
    ELSE LET cookie_headers == MapGet(event.multi_value_headers, <<99, 111, 111, 107, 105, 101>>)
         IN  IF IsSome(cookie_headers) THEN
                 LET pieces == Concat([i \in 1..Len(Unwrap(cookie_headers)) |->
                                          Split(Unwrap(cookie_headers)[i], 59)])
                 IN  [i \in 1..Len(pieces) |-> trim(pieces[i])]
             ELSE <<>>

\* HeaderValueAcceptsBr comparing with "br" as the value is written, without
\* to_ascii_lowercase (a faulty variant)
HeaderValueAcceptsBrCaseSensitive(header_val) ==
    \E elm \in Range(Split(header_val, 44)) :
        trim(Split(elm, 59)[1]) = <<98, 114>>

\* one Accept-Encoding value names "br"
HeaderValueAcceptsBr(header_val) ==
    \E elm \in Range(Split(to_ascii_lowercase(header_val), 44)) :
        trim(Split(elm, 59)[1]) = <<98, 114>>

client_supports_brotli(event) ==
    LET name == <<97, 99, 99, 101, 112, 116, 45, 101, 110, 99, 111, 100, 105, 110, 103>>  \* "accept-encoding"
    IN  IF IsV2(event) THEN
            LET header_val == MapGet(event.headers, name)
            IN  IsSome(header_val) /\ HeaderValueAcceptsBr(Unwrap(header_val))
        ELSE
            LET header_vals == MapGet(event.multi_value_headers, name)
            IN  IsSome(header_vals) /\
                \E i \in 1..Len(Unwrap(header_vals)) : HeaderValueAcceptsBr(Unwrap(header_vals)[i])

\* is the request and response in the multi-value-header format
multi_value(event) == IF IsV2(event) THEN FALSE ELSE TRUE

\* body that returns the string bytes whatever isBase64Encoded says (a faulty variant)
body_never_decoding(event) ==
    IF IsSome(event.body) THEN [ok |-> TRUE, bytes |-> Unwrap(event.body)]
    ELSE [ok |-> TRUE, bytes |-> <<>>]

\* request body: Ok(bytes) or Err(base64::DecodeError)
body(event) ==
    IF IsSome(event.body) THEN
        IF event.is_base64_encoded THEN Base64Decode(Unwrap(event.body))
        ELSE [ok |-> TRUE, bytes |-> Unwrap(event.body)]
    ELSE [ok |-> TRUE, bytes |-> <<>>]

\* decimal number 0..255 without leading zero, -1 when s is none
ParseOctet(s) ==
    LET digits == Len(s) \in 1..3 /\ \A i \in 1..Len(s) : s[i] >= 48 /\ s[i] <= 57
        val == IF Len(s) = 1 THEN s[1] - 48
               ELSE IF Len(s) = 2 THEN (s[1] - 48) * 10 + (s[2] - 48)
               ELSE (s[1] - 48) * 100 + (s[2] - 48) * 10 + (s[3] - 48)
    IN  IF digits /\ (Len(s) = 1 \/ s[1] # 48) /\ val <= 255 THEN val ELSE -1

\* the IPv6 literals the model's events carry, with their segments
Ipv6Literals ==
    { [text |-> <<58, 58, 49>>, segments |-> <<0, 0, 0, 0, 0, 0, 0, 1>>] }    \* "::1"

\* IpAddr::from_str(..).ok()
IpAddrFromStr(s) ==
    LET parts == Split(s, 46)
    IN  IF Len(parts) = 4 /\ \A i \in 1..4 : ParseOctet(parts[i]) >= 0
        THEN Some([family |-> "V4", addr |-> [i \in 1..4 |-> ParseOctet(parts[i])]])
        ELSE IF \E l \in Ipv6Literals : l.text = s
        THEN Some([family |-> "V6", addr |-> (CHOOSE l \in Ipv6Literals : l.text = s).segments])
        ELSE None

\* source_ip looking at requestContext.identity only (a faulty variant)
source_ip_identity_only(event) ==
    IF IsV2(event) THEN None
    ELSE IF IsRest(event) THEN IpAddrFromStr(event.request_context.identity.source_ip)
    ELSE None

source_ip(event) ==
    IF IsV2(event) THEN IpAddrFromStr(event.request_context.http.source_ip)
    ELSE IF IsRest(event) THEN IpAddrFromStr(event.request_context.identity.source_ip)
    ELSE None

(***************************************************************************)
(* Parsers of the http, hyper, rocket and cookie crates that the request   *)
(* conversions call                                                        *)
(***************************************************************************)
IsAlnum(b) == (b >= 48 /\ b <= 57) \/ (b >= 65 /\ b <= 90) \/ (b >= 97 /\ b <= 122)

\* RFC 7230 token byte: ! # $ % & ' * + - . ^ _ ` | ~ digits letters
IsTokenByte(b) == IsAlnum(b) \/ b \in {33, 35, 36, 37, 38, 39, 42, 43, 45, 46, 94, 95, 96, 124, 126}

\* hyper::Method::try_from(&str): a non-empty token (extension methods are accepted)
HyperMethodParses(m) == m # <<>> /\ \A i \in 1..Len(m) : IsTokenByte(m[i])

\* rocket::http::Method::from_str: one of nine names, compared without case
RocketMethodNames ==
    { <<103, 101, 116>>, <<112, 117, 116>>, <<112, 111, 115, 116>>,             \* get put post
      <<100, 101, 108, 101, 116, 101>>, <<111, 112, 116, 105, 111, 110, 115>>,  \* delete options
      <<104, 101, 97, 100>>, <<116, 114, 97, 99, 101>>,                         \* head trace
      <<99, 111, 110, 110, 101, 99, 116>>, <<112, 97, 116, 99, 104>> }          \* connect patch
RocketMethodParses(m) == to_ascii_lowercase(m) \in RocketMethodNames

\* hyper::header::HeaderName::from_str: a non-empty token, stored in lower case
HeaderNameParses(k) == k # <<>> /\ \A i \in 1..Len(k) : IsTokenByte(k[i])

\* HeaderValue::from_str and HeaderValue::to_str: visible ASCII or tab only
IsVisibleAscii(b) == (b >= 32 /\ b < 127) \/ b = 9
HeaderValueIsStr(v) == \A i \in 1..Len(v) : IsVisibleAscii(v[i])

\* bytes http::Uri accepts unescaped in a path and in a query
UriPathByte(b) ==
    \/ b = 33 \/ (b >= 36 /\ b <= 59) \/ b = 61 \/ (b >= 64 /\ b <= 95)
    \/ (b >= 97 /\ b <= 122) \/ b \in {124, 126}
    \/ b \in {34, 123, 125}
UriQueryByte(b) == b = 33 \/ (b >= 36 /\ b <= 59) \/ b = 61 \/ (b >= 63 /\ b <= 126)

\* http::Uri parses "https://{host}{path_and_query}": a '#' ends what is looked at
UriParses(host, pq) ==
    LET hash == FirstIndex(pq, 35)
        seen == IF hash = 0 THEN pq ELSE SubSeq(pq, 1, hash - 1)
        q == FirstIndex(seen, 63)
        path == IF q = 0 THEN seen ELSE SubSeq(seen, 1, q - 1)
        query == IF q = 0 THEN <<>> ELSE Drop(seen, q)
    IN  /\ host # <<>>
        /\ \A i \in 1..Len(host) : IsAlnum(host[i]) \/ host[i] \in {45, 46, 58, 95, 126}
        /\ \A i \in 1..Len(path) : UriPathByte(path[i])
        /\ \A i \in 1..Len(query) : UriQueryByte(query[i])

\* value of a hexadecimal digit, -1 for any other byte
HexVal(c) ==
    IF c >= 48 /\ c <= 57 THEN c - 48
    ELSE IF c >= 65 /\ c <= 70 THEN c - 55
    ELSE IF c >= 97 /\ c <= 102 THEN c - 87
    ELSE -1

\* percent_encoding::percent_decode: %XX becomes a byte, anything else stays
RECURSIVE PercentDecode(_)
PercentDecode(s) ==
    IF s = <<>> THEN <<>>
    ELSE IF s[1] = 37 /\ Len(s) >= 3 /\ HexVal(s[2]) >= 0 /\ HexVal(s[3]) >= 0
         THEN <<HexVal(s[2]) * 16 + HexVal(s[3])>> \o PercentDecode(Drop(s, 3))
         ELSE <<s[1]>> \o PercentDecode(Tail(s))

\* Cookie::parse_encoded of one "name=value": fails without '=' or with an empty name
CookieParseEncoded(c) ==
    LET eq == FirstIndex(c, 61)
        name == IF eq = 0 THEN <<>> ELSE trim(SubSeq(c, 1, eq - 1))
        value == IF eq = 0 THEN <<>> ELSE trim(Drop(c, eq))
    IN  IF eq = 0 \/ name = <<>> THEN None
        ELSE Some([name |-> PercentDecode(name), value |-> PercentDecode(value)])

(***************************************************************************)
(* Request conversions (src/hyper014.rs, src/warp03.rs, src/rocket05.rs)   *)
(***************************************************************************)
ConversionErr == [ok |-> FALSE]

\* the HeaderMap after headers_mut.insert(k, v) for every pair with a valid
\* name and value: insert replaces, so the last value of a name stays
HyperHeaderMap(pairs) ==
    LET valid == SelectSeq(pairs, LAMBDA p : HeaderNameParses(p[1]) /\ HeaderValueIsStr(p[2]))
        names == { to_ascii_lowercase(valid[i][1]) : i \in 1..Len(valid) }
    IN  [n \in names |->
            LET of_n == SelectSeq(valid, LAMBDA p : to_ascii_lowercase(p[1]) = n)
            IN  of_n[Len(of_n)][2]]

\* impl TryFrom<LambdaHttpEvent> for HyperRequest (the same code in hyper014.rs
\* and warp03.rs): Ok(request) or Err
HyperTryFrom(event, korder, horder) ==
    LET host == UnwrapOr(hostname(event), <<108, 111, 99, 97, 108, 104, 111, 115, 116>>)  \* "localhost"
        pq == path_query(event, korder)
        uri == <<104, 116, 116, 112, 115, 58, 47, 47>> \o host \o pq                      \* "https://{}{}"
        b == body(event)
    IN  IF ~HyperMethodParses(method(event)) THEN ConversionErr   \* Method::try_from(..)?
        ELSE IF ~b.ok THEN ConversionErr                          \* event.body()?
        ELSE IF ~UriParses(host, pq) THEN ConversionErr           \* reqbuilder.body(..)?
        ELSE [ok |-> TRUE,
              uri |-> uri,
              method |-> method(event),
              headers |-> HyperHeaderMap(headers(event, horder)),
              body |-> b.bytes]

\* the cookies of a RequestDecode that make_request hands to Rocket
RocketCookies(cs) ==
    LET parsed == SelectSeq(cs, LAMBDA c : IsSome(CookieParseEncoded(c)))
    IN  [i \in 1..Len(parsed) |-> Unwrap(CookieParseEncoded(parsed[i]))]

\* impl TryFrom<LambdaHttpEvent> for RequestDecode followed by make_request:
\* Ok(the LocalRequest that is dispatched) or Err
RocketTryFrom(event, korder, horder) ==
    LET b == body(event)
    IN  IF ~RocketMethodParses(method(event)) THEN ConversionErr  \* "InvalidMethod"
        ELSE IF ~b.ok THEN ConversionErr                          \* event.body()?
        ELSE [ok |-> TRUE,
              uri |-> path_query(event, korder),
              method |-> to_ascii_lowercase(method(event)),
              remote |-> UnwrapOr(source_ip(event), [family |-> "V4", addr |-> <<0, 0, 0, 0>>]),
              cookies |-> RocketCookies(cookies(event)),
              headers |-> headers(event, horder),
              body |-> b.bytes]

(***************************************************************************)
(* Framework responses and brotli (src/brotli.rs)                          *)
(*                                                                         *)
(* A response is [status, headers, body, body_err, brotli_err]: headers is *)
(* the sequence of <<name, value>> header lines in the order the           *)
(* application added them, body_err says that reading the body fails,      *)
(* brotli_err is None when the compressor, run over the body, succeeds and *)
(* Some(what it had written) when it reports an error.                     *)
(***************************************************************************)
\* key under which a header map files a name: hyper names are lower case
\* already, Rocket compares names without case
KeyOf(name, uncased) == IF uncased THEN to_ascii_lowercase(name) ELSE name

\* HeaderMap::iter(): every name once per value, the values of one name in
\* the order they were added, under the spelling the name was first added with
HeaderMapIter(lines, uncased) ==
    LET firsts == SelectSeq([i \in 1..Len(lines) |-> i],
                      LAMBDA i : \A j \in 1..(i - 1) :
                          KeyOf(lines[j][1], uncased) # KeyOf(lines[i][1], uncased))
    IN  Concat([n \in 1..Len(firsts) |->
            LET same == SelectSeq(lines, LAMBDA l :
                            KeyOf(l[1], uncased) = KeyOf(lines[firsts[n]][1], uncased))
            IN  [j \in 1..Len(same) |-> <<lines[firsts[n]][1], same[j][2]>>]])

\* HeaderMap::get / get_one: the first value filed under a name
HeaderGet(lines, name, uncased) ==
    LET same == SelectSeq(lines, LAMBDA l : KeyOf(l[1], uncased) = KeyOf(name, uncased))
    IN  IF same = <<>> THEN None ELSE Some(same[1][2])

\* Option::and_then(|val| val.to_str().ok())
ToStrOk(o) == IF IsSome(o) /\ HeaderValueIsStr(Unwrap(o)) THEN o ELSE None

CONTENT_ENCODING == <<99, 111, 110, 116, 101, 110, 116, 45, 101, 110, 99, 111, 100, 105, 110, 103>>
CONTENT_TYPE == <<99, 111, 110, 116, 101, 110, 116, 45, 116, 121, 112, 101>>
SET_COOKIE == <<115, 101, 116, 45, 99, 111, 111, 107, 105, 101>>

\* ResponseCompression::content_encoding / content_type of the three bindings
HyperContentEncoding(response) == ToStrOk(HeaderGet(response.headers, CONTENT_ENCODING, FALSE))
HyperContentType(response) == ToStrOk(HeaderGet(response.headers, CONTENT_TYPE, FALSE))
RocketContentEncoding(response) == HeaderGet(response.headers, CONTENT_ENCODING, TRUE)
RocketContentType(response) == HeaderGet(response.headers, CONTENT_TYPE, TRUE)

\* the content types that are compressed
CompressibleTypePrefixes ==
    { <<116, 101, 120, 116, 47>>,                                                         \* text/
      <<97, 112, 112, 108, 105, 99, 97, 116, 105, 111, 110, 47, 106, 115, 111, 110>>,     \* application/json
      <<97, 112, 112, 108, 105, 99, 97, 116, 105, 111, 110, 47, 120, 104, 116, 109, 108>>, \* application/xhtml
      <<97, 112, 112, 108, 105, 99, 97, 116, 105, 111, 110, 47, 120, 109, 108>>,          \* application/xml
      <<97, 112, 112, 108, 105, 99, 97, 116, 105, 111, 110, 47, 119, 97, 115, 109>>,      \* application/wasm
      <<105, 109, 97, 103, 101, 47, 115, 118, 103>> }                                     \* image/svg

\* ResponseCompression::can_brotli_compress
can_brotli_compress(content_encoding, content_type) ==
    IF IsSome(content_encoding) THEN FALSE      \* already compressed
    ELSE IF IsSome(content_type) THEN
        LET ctype == to_ascii_lowercase(trim(Unwrap(content_type)))
        IN  \E p \in CompressibleTypePrefixes : StartsWith(ctype, p)
    ELSE FALSE                                   \* no content-type

\* brotli::BrotliCompress: the compressed stream of a body.  The stream is
\* kept abstract: a framing of the body that differs from every body and
\* from which the body can be read back.
BrotliCompress(bytes) == <<139>> \o bytes \o <<3>>

\* compress_response_body: what the compressor wrote into the base64 writer;
\* its result (let _sz) is not looked at
compress_response_body(bytes, brotli_err) ==
    Base64Encode(IF IsSome(brotli_err) THEN Unwrap(brotli_err) ELSE BrotliCompress(bytes))

(***************************************************************************)
(* Response serializers (src/hyper014.rs, src/rocket05.rs, src/warp03.rs)  *)
(***************************************************************************)
\* the header lines the loops of the serializers look at
HyperEntries(response) ==
    SelectSeq(HeaderMapIter(response.headers, FALSE), LAMBDA e : HeaderValueIsStr(e[2]))
RocketEntries(response) == HeaderMapIter(response.headers, TRUE)

\* the JSON map of the multi-value format with insert in place of push, so
\* that a later value of a name replaces the earlier ones (a faulty variant)
MultiValueMapLastOnly(entries) ==
    [n \in { entries[i][1] : i \in 1..Len(entries) } |->
        LET of_n == SelectSeq(entries, LAMBDA e : e[1] = n)
        IN  <<of_n[Len(of_n)][2]>>]

\* the JSON map built by the loop in the multi-value format: name -> array
MultiValueMap(entries) ==
    [n \in { entries[i][1] : i \in 1..Len(entries) } |->
        LET of_n == SelectSeq(entries, LAMBDA e : e[1] = n)
        IN  [j \in 1..Len(of_n) |-> of_n[j][2]]]

\* the JSON map built by headers.insert(name, value) for every entry: name -> string
SingleValueMap(entries) ==
    [n \in { entries[i][1] : i \in 1..Len(entries) } |->
        LET of_n == SelectSeq(entries, LAMBDA e : e[1] = n)
        IN  of_n[Len(of_n)][2]]

\* the entries whose name the code takes for a Set-Cookie header
IsSetCookieName(name) == name = SET_COOKIE
CookieValues(entries) ==
    LET cs == SelectSeq(entries, LAMBDA e : IsSetCookieName(e[1]))
    IN  [i \in 1..Len(cs) |-> cs[i][2]]
NonCookieEntries(entries) == SelectSeq(entries, LAMBDA e : ~IsSetCookieName(e[1]))

\* WithContentEncoding leaving the map as it is (a faulty variant)
WithoutContentEncoding(map, v) == map

\* headers.insert("content-encoding", v) on a JSON map
WithContentEncoding(map, v) == (CONTENT_ENCODING :> v) @@ map

BR == <<98, 114>>

\* Envelope with 200 for every status (a faulty variant)
EnvelopeStatusOk(entries, status_code, body_bytes, brotli_err, compress, multi_value_format) ==
    LET body_base64 == IF compress THEN compress_response_body(body_bytes, brotli_err)
                       ELSE Base64Encode(body_bytes)
    IN  IF multi_value_format THEN
            [isBase64Encoded |-> TRUE,
             statusCode |-> 200,
             multiValueHeaders |-> IF compress THEN WithContentEncoding(MultiValueMap(entries), <<BR>>)
                                   ELSE MultiValueMap(entries),
             body |-> body_base64]
        ELSE
            [isBase64Encoded |-> TRUE,
             statusCode |-> 200,
             cookies |-> CookieValues(entries),
             headers |-> IF compress THEN WithContentEncoding(SingleValueMap(NonCookieEntries(entries)), BR)
                         ELSE SingleValueMap(NonCookieEntries(entries)),
             body |-> body_base64]

\* the envelope of the two formats, from the entries, the status and the body
Envelope(entries, status_code, body_bytes, brotli_err, compress, multi_value_format) ==
    LET body_base64 == IF compress THEN compress_response_body(body_bytes, brotli_err)
                       ELSE Base64Encode(body_bytes)
    IN  IF multi_value_format THEN
            [isBase64Encoded |-> TRUE,
             statusCode |-> status_code,
             multiValueHeaders |-> IF compress THEN WithContentEncoding(MultiValueMap(entries), <<BR>>)
                                   ELSE MultiValueMap(entries),
             body |-> body_base64]
        ELSE
            [isBase64Encoded |-> TRUE,
             statusCode |-> status_code,
             cookies |-> CookieValues(entries),
             headers |-> IF compress THEN WithContentEncoding(SingleValueMap(NonCookieEntries(entries)), BR)
                         ELSE SingleValueMap(NonCookieEntries(entries)),
             body |-> body_base64]

\* api_gateway_response_from_hyper of hyper014.rs: Ok(envelope) or Err
api_gateway_response_from_hyper(response, client_support_br, multi_value_format) ==
    LET compress == client_support_br /\
                    can_brotli_compress(HyperContentEncoding(response), HyperContentType(response))
    IN  IF response.body_err THEN [ok |-> FALSE]       \* hyper::body::to_bytes(res_body).await?
        ELSE [ok |-> TRUE,
              value |-> Envelope(HyperEntries(response), response.status, response.body,
                                 response.brotli_err, compress, multi_value_format)]

\* api_gateway_response_from_rocket: always Ok(envelope)
api_gateway_response_from_rocket(response, client_support_br, multi_value_format) ==
    LET compress == client_support_br /\
                    can_brotli_compress(RocketContentEncoding(response), RocketContentType(response))
        body_bytes == IF response.body_err THEN <<>> ELSE response.body   \* unwrap_or_default()
    IN  [ok |-> TRUE,
         value |-> Envelope(RocketEntries(response), response.status, body_bytes,
                            response.brotli_err, compress, multi_value_format)]

\* api_gateway_response_from_hyper of warp03.rs: one format, no cookies array
api_gateway_response_from_warp(response, client_support_br) ==
    LET compress == client_support_br /\
                    can_brotli_compress(HyperContentEncoding(response), HyperContentType(response))
        map == SingleValueMap(HyperEntries(response))
    IN  IF response.body_err THEN [ok |-> FALSE]       \* hyper::body::to_bytes(res_body).await?
        ELSE [ok |-> TRUE,
              value |-> [isBase64Encoded |-> TRUE,
                         statusCode |-> response.status,
                         headers |-> IF compress THEN WithContentEncoding(map, BR) ELSE map,
                         body |-> IF compress
                                  THEN compress_response_body(response.body, response.brotli_err)
                                  ELSE Base64Encode(response.body)]]

\* the fixed envelopes of a failed invocation
ErrorEnvelope(status_code, text) ==
    [isBase64Encoded |-> FALSE,
     statusCode |-> status_code,
     headers |-> (CONTENT_TYPE :> <<116, 101, 120, 116, 47, 112, 108, 97, 105, 110>>),  \* text/plain
     body |-> text]
\* BadRequest marked as base64 text (a faulty variant)
BadRequestEncoded ==
    [ErrorEnvelope(400, <<66, 97, 100, 32, 82, 101, 113, 117, 101, 115, 116>>)
        EXCEPT !.isBase64Encoded = TRUE]
BadRequest ==
    ErrorEnvelope(400, <<66, 97, 100, 32, 82, 101, 113, 117, 101, 115, 116>>)   \* "Bad Request"
InternalServerError ==
    ErrorEnvelope(500, <<73, 110, 116, 101, 114, 110, 97, 108, 32, 83, 101, 114, 118, 101, 114,
                         32, 69, 114, 114, 111, 114>>)                          \* "Internal Server Error"

(***************************************************************************)
(* Events delivered by the gateway                                         *)
(***************************************************************************)
GET == <<71, 69, 84>>
DomainName == <<101, 120, 97, 109, 112, 108, 101, 46, 99, 111, 109>>        \* "example.com"
SourceIp == <<49, 46, 50, 46, 51, 46, 52>>                                  \* "1.2.3.4"
XForwardedPort == <<120, 45, 102, 111, 114, 119, 97, 114, 100, 101, 100, 45, 112, 111, 114, 116>>
ACCEPT_ENCODING == <<97, 99, 99, 101, 112, 116, 45, 101, 110, 99, 111, 100, 105, 110, 103>>
Stage == <<47, 115, 116, 97, 103, 101>>                                     \* "/stage"

\* GET / of the three gateways (API_GATEWAY_V2_GET_ROOT_NOQUERY,
\* API_GATEWAY_REST_GET_ROOT_NOQUERY, and the same through an ALB)
V2Base ==
    [variant |-> "ApiGatewayHttpV2",
     raw_path |-> <<47>>,
     raw_query_string |-> Some(<<>>),
     cookies |-> None,
     headers |-> (XForwardedPort :> <<52, 52, 51>>),
     body |-> None,
     is_base64_encoded |-> FALSE,
     request_context |-> [domain_name |-> DomainName,
                          http |-> [method |-> GET, source_ip |-> SourceIp]]]

RestBase ==
    [variant |-> "ApiGatewayRestOrAlb",
     path |-> <<47>>,
     http_method |-> GET,
     body |-> None,
     is_base64_encoded |-> FALSE,
     multi_value_headers |-> (XForwardedPort :> << <<52, 52, 51>> >>),
     multi_value_query_string_parameters |-> Some(<<>>),
     request_context |-> [variant |-> "Rest",
                          domain_name |-> DomainName,
                          identity |-> [source_ip |-> SourceIp],
                          path |-> Stage \o <<47>>]]

AlbBase ==
    [variant |-> "ApiGatewayRestOrAlb",
     path |-> <<47>>,
     http_method |-> GET,
     body |-> None,
     is_base64_encoded |-> FALSE,
     multi_value_headers |-> (<<104, 111, 115, 116>> :> <<DomainName>>),
     multi_value_query_string_parameters |-> None,
     request_context |-> [variant |-> "Alb"]]

\* paths of the test events, as delivered
TestPaths ==
    { <<47>>,
      <<47, 115, 111, 109, 101, 119, 104, 101, 114, 101>>,                                   \* /somewhere
      <<47, 112, 97, 116, 104, 32, 119, 105, 116, 104, 47, 115, 112, 97, 99, 101>>,          \* /path with/space
      <<47, 112, 97, 116, 104, 37, 119, 105, 116, 104, 47, 112, 101, 114, 99, 101, 110, 116>>, \* /path%with/percent
      <<47, 230, 151, 165, 47, 195, 169>> }                                                  \* /日/é

\* paths still percent-encoded, as the REST gateway delivers them
EncodedTestPaths ==
    { <<47>>,
      <<47, 115, 111, 109, 101, 119, 104, 101, 114, 101>>,                                   \* /somewhere
      <<47, 112, 97, 116, 104, 37, 50, 48, 119, 105, 116, 104, 47, 115, 112, 97, 99, 101>>,  \* /path%20with/space
      <<47, 112, 97, 116, 104, 37, 50, 53, 119, 105, 116, 104, 47, 112, 101, 114, 99, 101, 110, 116>>, \* /path%25with/percent
      <<47, 37, 69, 54, 37, 57, 55, 37, 65, 53>> }                                           \* /%E6%97%A5

\* generated paths: '/' followed by at most MaxPathLen bytes of a, space, % and ?
GeneratedPaths == { <<47>> \o s : s \in SeqsUpTo({97, 32, 37, 63}, MaxPathLen) }

\* one path per ASCII byte
AsciiPaths == { <<47, b>> : b \in 0..127 }

V2Paths == TestPaths \cup GeneratedPaths \cup AsciiPaths
RestPaths == EncodedTestPaths \cup TestPaths \cup GeneratedPaths

RawQueryStrings ==
    { None, Some(<<>>),
      Some(<<107, 101, 121, 61, 118, 97, 108, 117, 101>>),                                   \* key=value
      Some(<<107, 101, 121, 49, 61, 118, 49, 38, 107, 101, 121, 50, 61, 118, 50>>),          \* key1=v1&key2=v2
      Some(<<107, 101, 121, 61, 118, 97, 108, 117, 101, 49, 43, 118, 97, 108, 117, 101, 50>>), \* key=value1+value2
      Some(<<107, 101, 121, 61, 37, 69, 54, 37, 57, 55, 37, 65, 53>>),                       \* key=%E6%97%A5
      Some(<<97, 61, 98, 63, 99>>) }                                                         \* a=b?c

KEY == <<107, 101, 121>>
\* multiValueQueryStringParameters, values percent-decoded
QueryMaps ==
    { None, Some(<<>>),
      Some(KEY :> << <<118, 97, 108, 117, 101>> >>),                                         \* key: [value]
      Some((KEY \o <<49>> :> << <<118, 49>> >>) @@ (KEY \o <<50>> :> << <<118, 50>> >>)),    \* key1: [v1], key2: [v2]
      Some(KEY :> << <<118, 97, 108, 117, 101, 49, 32, 118, 97, 108, 117, 101, 50>> >>),     \* key: [value1 value2]
      Some(KEY :> << <<230, 151, 165>> >>),                                                  \* key: [日]
      Some(KEY :> << <<118, 49>>, <<118, 50>> >>),                                           \* key: [v1, v2]
      Some((<<97, 32, 98>> :> << <<99, 61, 100>>, <<>> >>) @@ (KEY :> << <<120, 47, 121, 63, 122>> >>)),
                                                                                             \* "a b": [c=d, ""], key: [x/y?z]
      Some(KEY :> << <<99, 38, 100>>, <<101, 43, 102>> >>),                                  \* key: [c&d, e+f]
      Some(<<97, 61, 98>> :> << <<99>> >>) }                                                 \* "a=b": [c]

Bodies ==
    { None, Some(<<>>), Some(<<104, 105>>),                                                  \* hi
      Some(<<97, 71, 107, 61>>), Some(<<89, 81, 61, 61>>), Some(<<89, 87, 74, 106>>),        \* aGk= YQ== YWJj
      Some(<<97, 32, 98, 33>>), Some(<<89>>), Some(<<89, 82, 61, 61>>) }                     \* "a b!" Y YR==

Methods == { GET, <<80, 79, 83, 84>>, <<103, 101, 116>>, <<76, 73, 83, 84>>, <<71, 32, 84>>, <<>> }
                                                                    \* GET POST get LIST "G T" ""

AcceptEncodings ==
    { <<103, 122, 105, 112>>,                                                                \* gzip
      <<103, 122, 105, 112, 44, 32, 98, 114, 59, 113, 61, 48, 46, 56>>,                      \* gzip, br;q=0.8
      <<66, 82>> }                                                                           \* BR

Cookie1 == <<99, 111, 111, 107, 105, 101, 49, 61, 118, 97, 108, 117, 101, 49>>               \* cookie1=value1
Cookie2 == <<99, 111, 111, 107, 105, 101, 50, 61, 118, 97, 108, 117, 101, 50>>               \* cookie2=value2

CookieLists ==
    { Some(<<>>), Some(<< <<97, 61, 49>> >>), Some(<< <<98, 61, 50>>, <<97, 61, 49>> >>),    \* [] [a=1] [b=2, a=1]
      Some(<< <<110, 111, 118, 97, 108>>, <<97, 61, 49>> >>),                                \* [noval, a=1]
      Some(<<Cookie2, Cookie1>>) }

SourceIps == { <<58, 58, 49>>, <<49, 46, 50, 46, 51>>, <<>> }                                \* ::1  1.2.3  ""

RestOrAlbBases == { RestBase, AlbBase }

\* a RestOrAlb event for path p: the REST gateway puts the stage before it
\* in requestContext.path
WithPath(base, p) ==
    IF base.request_context.variant = "Rest"
    THEN [base EXCEPT !.path = p, !.request_context.path = Stage \o p]
    ELSE [base EXCEPT !.path = p]

\* API_GATEWAY_V2_GET_TWO_COOKIES and API_GATEWAY_REST_GET_TWO_COOKIES, as far
\* as their cookies go
V2TwoCookies == [V2Base EXCEPT !.cookies = Some(<<Cookie2, Cookie1>>)]
RestTwoCookies ==
    [RestBase EXCEPT !.multi_value_headers =
        (<<99, 111, 111, 107, 105, 101>> :> <<Cookie1 \o <<59, 32>> \o Cookie2>>) @@ @]

Events ==
    { [V2Base EXCEPT !.raw_path = p] : p \in V2Paths }
    \cup { RestTwoCookies }
    \cup { [V2Base EXCEPT !.raw_path = p, !.raw_query_string = q] :
             p \in {<<47>>, <<47, 115, 111, 109, 101, 119, 104, 101, 114, 101>>, <<47, 97, 32>>},
             q \in RawQueryStrings }
    \cup { [WithPath(b, p) EXCEPT !.multi_value_query_string_parameters = q] :
             b \in RestOrAlbBases, p \in RestPaths, q \in {None, Some(<<>>)} }
    \cup { [WithPath(b, p) EXCEPT !.multi_value_query_string_parameters = q] :
             b \in RestOrAlbBases, p \in {<<47>>, <<47, 97, 32>>}, q \in QueryMaps }
    \cup { [b EXCEPT !.body = bd, !.is_base64_encoded = enc] :
             b \in {V2Base, RestBase, AlbBase}, bd \in Bodies, enc \in BOOLEAN }
    \cup { [V2Base EXCEPT !.request_context.http.method = m] : m \in Methods }
    \cup { [b EXCEPT !.http_method = m] : b \in RestOrAlbBases, m \in Methods }
    \cup { [V2Base EXCEPT !.headers = (ACCEPT_ENCODING :> a) @@ @] : a \in AcceptEncodings }
    \cup { [b EXCEPT !.multi_value_headers = (ACCEPT_ENCODING :> <<a1, a2>>) @@ @] :
             b \in RestOrAlbBases, a1 \in AcceptEncodings, a2 \in AcceptEncodings }
    \cup { [V2Base EXCEPT !.cookies = c] : c \in CookieLists }
    \cup { [RestBase EXCEPT !.multi_value_headers =
                (<<99, 111, 111, 107, 105, 101>> :> << <<97, 61, 49, 59, 32, 98, 61, 50>>, <<99, 61, 51>> >>) @@ @] }
    \cup { [V2Base EXCEPT !.request_context.http.source_ip = ip] : ip \in SourceIps }
    \cup { [RestBase EXCEPT !.request_context.identity.source_ip = ip] : ip \in SourceIps }

(***************************************************************************)
(* Responses of the framework                                              *)
(***************************************************************************)
TEXT_HTML == <<116, 101, 120, 116, 47, 104, 116, 109, 108>>
IMAGE_PNG == <<105, 109, 97, 103, 101, 47, 112, 110, 103>>
GZIP == <<103, 122, 105, 112>>

\* header lines of a hyper response: names are lower case, a value may
\* hold bytes that are no visible ASCII
HyperLines ==
    { <<SET_COOKIE, <<97, 61, 49>> >>, <<SET_COOKIE, <<98, 61, 50>> >>, <<SET_COOKIE, <<255>> >>,
      <<CONTENT_TYPE, TEXT_HTML>>, <<CONTENT_TYPE, IMAGE_PNG>>,
      <<CONTENT_ENCODING, GZIP>>, <<CONTENT_ENCODING, <<255>> >> }

\* header lines of a Rocket response: names keep the spelling they were
\* given, values are strings
RocketLines ==
    { << <<83, 101, 116, 45, 67, 111, 111, 107, 105, 101>>, <<97, 61, 49>> >>,      \* Set-Cookie: a=1
      << <<83, 101, 116, 45, 67, 111, 111, 107, 105, 101>>, <<98, 61, 50>> >>,      \* Set-Cookie: b=2
      <<SET_COOKIE, <<97, 61, 49>> >>, <<SET_COOKIE, <<98, 61, 50>> >>,
      <<CONTENT_TYPE, TEXT_HTML>>, <<CONTENT_TYPE, IMAGE_PNG>>,
      <<CONTENT_ENCODING, GZIP>> }

\* what the compressor may have written when it reports an error: nothing,
\* or the first byte of its stream
BrotliErrs == { Some(<<>>), Some(<<139>>) }

ResponsesOver(lines) ==
    { [status |-> 200, headers |-> h, body |-> <<104, 105>>, body_err |-> FALSE, brotli_err |-> None] :
        h \in SeqsUpTo(lines, MaxHeaders) }
    \cup { [status |-> s, headers |-> << <<CONTENT_TYPE, TEXT_HTML>> >>, body |-> b, body_err |-> e,
            brotli_err |-> None] :
             s \in {200, 404}, b \in {<<>>, <<104, 105, 33>>}, e \in BOOLEAN }
    \cup { [status |-> 200, headers |-> h, body |-> <<104, 105>>, body_err |-> FALSE, brotli_err |-> w] :
             h \in { << <<CONTENT_TYPE, TEXT_HTML>> >>, << <<CONTENT_TYPE, IMAGE_PNG>> >> },
             w \in BrotliErrs }

HyperResponses == ResponsesOver(HyperLines)
RocketResponses == ResponsesOver(RocketLines)

(***************************************************************************)
(* The handlers: one invocation at a time                                  *)
(***************************************************************************)
VARIABLES
    pc,               \* "idle": no invocation; "awaiting": the framework is
                      \* working on the request; "done": call() has resolved
    binding,          \* the handler that serves the invocation: "hyper", "warp", "rocket"
    event,            \* Some(req.payload) from the call until the framework answers
    path_and_query,   \* what event.path_query() returned in the conversion
    client_br,        \* local client_br of call()
    multi_value_out,  \* local multi_value of call()
    request,          \* the result of the conversion of the event, its
                      \* fields until the framework answers
    svc_calls,        \* calls of the framework service in this invocation
    response,         \* Some(what the framework answered), None before
    result,           \* Some(what call() resolved to), None before
    payload,          \* Some(the document the runtime deserializes), None
                      \* while the handlers work on an event
    decoded           \* Some(what serde_json::from_str gave for payload),
                      \* None before

vars == <<pc, binding, event, path_and_query, client_br, multi_value_out,
          request, svc_calls, response, result, payload, decoded>>

Init ==
    /\ pc = "idle"
    /\ binding = "none"
    /\ event = None
    /\ path_and_query = <<>>
    /\ client_br = FALSE
    /\ multi_value_out = FALSE
    /\ request = ConversionErr
    /\ svc_calls = 0
    /\ response = None
    /\ result = None
    /\ payload = None
    /\ decoded = None

\* Call handing the event to the service whether or not it was converted (a
\* faulty variant)
CallUnconverted(b, ev, korder, horder, converted) ==
    /\ pc = "idle"
    /\ binding' = b
    /\ event' = Some(ev)
    /\ path_and_query' = path_query(ev, korder)
    /\ client_br' = client_supports_brotli(ev)
    /\ multi_value_out' = IF b = "warp" THEN FALSE ELSE multi_value(ev)
    /\ request' = converted
    /\ response' = None
    /\ UNCHANGED <<payload, decoded>>
    /\ svc_calls' = 1
    /\ IF converted.ok
       THEN pc' = "awaiting" /\ result' = None
       ELSE pc' = "done" /\ result' = Some([ok |-> TRUE, value |-> BadRequest])

\* the part of call() that runs before the returned future is polled: the
\* event is converted and, when that succeeded, the service is called
Call(b, ev, korder, horder, converted) ==
    /\ pc = "idle"
    /\ binding' = b
    /\ event' = Some(ev)
    /\ path_and_query' = path_query(ev, korder)
    /\ client_br' = client_supports_brotli(ev)
    /\ multi_value_out' = IF b = "warp" THEN FALSE ELSE multi_value(ev)
    /\ request' = converted
    /\ response' = None
    /\ UNCHANGED <<payload, decoded>>
    /\ IF converted.ok
       THEN /\ svc_calls' = 1
            /\ pc' = "awaiting"
            /\ result' = None
       ELSE /\ svc_calls' = 0
            /\ pc' = "done"
            /\ result' = Some([ok |-> TRUE, value |-> BadRequest])

\* HyperHandler::call of hyper014.rs
HyperCall ==
    \E ev \in Events : \E korder \in QueryKeyOrders(ev) : \E horder \in HeaderKeyOrders(ev) :
        Call("hyper", ev, korder, horder, HyperTryFrom(ev, korder, horder))

\* HyperHandler::call of warp03.rs
WarpCall ==
    \E ev \in Events : \E korder \in QueryKeyOrders(ev) : \E horder \in HeaderKeyOrders(ev) :
        Call("warp", ev, korder, horder, HyperTryFrom(ev, korder, horder))

\* RocketHandler::call
RocketCall ==
    \E ev \in Events : \E korder \in QueryKeyOrders(ev) : \E horder \in HeaderKeyOrders(ev) :
        Call("rocket", ev, korder, horder, RocketTryFrom(ev, korder, horder))

\* the event was moved into the conversion and the request into the service:
\* when the future resolves, what it computes depends on them only through
\* client_br and multi_value_out, and they are gone
RequestTaken == [ok |-> TRUE]
Consumed ==
    /\ event' = None
    /\ path_and_query' = <<>>
    /\ request' = RequestTaken
    /\ UNCHANGED <<payload, decoded>>

\* the future of hyper014.rs resolves: the service failed, or it answered
\* and the answer is serialized (a failure of that gives the 500 envelope)
HyperResolve ==
    /\ pc = "awaiting" /\ binding = "hyper"
    /\ \/ /\ response' = None
          /\ result' = Some([ok |-> TRUE, value |-> InternalServerError])
       \/ \E r \in HyperResponses :
            /\ response' = Some(r)
            /\ LET out == api_gateway_response_from_hyper(r, client_br, multi_value_out)
               IN  result' = Some(IF out.ok THEN out
                                  ELSE [ok |-> TRUE, value |-> InternalServerError])
    /\ pc' = "done"
    /\ Consumed
    /\ UNCHANGED <<binding, client_br, multi_value_out, svc_calls>>

\* the future of warp03.rs resolves: the service cannot fail (Infallible),
\* an error of the serializer is returned as it is
WarpResolve ==
    /\ pc = "awaiting" /\ binding = "warp"
    /\ \E r \in HyperResponses :
            /\ response' = Some(r)
            /\ result' = Some(api_gateway_response_from_warp(r, client_br))
    /\ pc' = "done"
    /\ Consumed
    /\ UNCHANGED <<binding, client_br, multi_value_out, svc_calls>>

\* the future of rocket05.rs resolves: the request is dispatched and the
\* response serialized
RocketResolve ==
    /\ pc = "awaiting" /\ binding = "rocket"
    /\ \E r \in RocketResponses :
            /\ response' = Some(r)
            /\ result' = Some(api_gateway_response_from_rocket(r, client_br, multi_value_out))
    /\ pc' = "done"
    /\ Consumed
    /\ UNCHANGED <<binding, client_br, multi_value_out, svc_calls>>

\* the runtime takes the result; the handler is ready for the next event
Return ==
    /\ pc = "done"
    /\ pc' = "idle"
    /\ binding' = "none"
    /\ event' = None
    /\ path_and_query' = <<>>
    /\ client_br' = FALSE
    /\ multi_value_out' = FALSE
    /\ request' = ConversionErr
    /\ svc_calls' = 0
    /\ response' = None
    /\ result' = None
    /\ UNCHANGED <<payload, decoded>>

Next ==
    \/ HyperCall
    \/ WarpCall
    \/ RocketCall
    \/ HyperResolve
    \/ WarpResolve
    \/ RocketResolve
    \/ Return

Spec == Init /\ [][Next]_vars

(***************************************************************************)
(* Deserialization of the payload (src/request.rs)                         *)
(*                                                                         *)
(* A payload is the JSON document of one invocation, as far as the fields  *)
(* the event types require go: every field is None when the document has   *)
(* no such key and Some(value) when it has.  requestContext is an object   *)
(* whose fields are given in the same way, http with method and sourceIp,  *)
(* identity with or without its sourceIp.  Keys the types do not name are  *)
(* ignored by serde and left out.                                          *)
(***************************************************************************)
DecodeErr == [ok |-> FALSE]

\* ApiGatewayV2RequestContext: domainName and http are required
DeserializeV2RequestContext(c) ==
    IF IsSome(c.domainName) /\ IsSome(c.http)
    THEN Some([domain_name |-> Unwrap(c.domainName), http |-> Unwrap(c.http)])
    ELSE None

\* ApiGatewayHttpV2Event: version, rawPath, headers and requestContext are
\* required; rawQueryString, cookies and body are options, isBase64Encoded
\* has a default
DeserializeV2(p) ==
    IF /\ IsSome(p.version) /\ IsSome(p.rawPath) /\ IsSome(p.headers)
       /\ IsSome(p.requestContext)
       /\ IsSome(DeserializeV2RequestContext(Unwrap(p.requestContext)))
    THEN [ok |-> TRUE,
          event |-> [variant |-> "ApiGatewayHttpV2",
                     raw_path |-> Unwrap(p.rawPath),
                     raw_query_string |-> None,
                     cookies |-> None,
                     headers |-> Unwrap(p.headers),
                     body |-> None,
                     is_base64_encoded |-> FALSE,
                     request_context |-> Unwrap(DeserializeV2RequestContext(Unwrap(p.requestContext)))]]
    ELSE DecodeErr

\* ApiGatewayRestRequestContext: domainName, identity (with its sourceIp)
\* and path are required
DeserializeRestRequestContext(c) ==
    IF /\ IsSome(c.domainName) /\ IsSome(c.path)
       /\ IsSome(c.identity) /\ IsSome(Unwrap(c.identity).sourceIp)
    THEN Some([variant |-> "Rest",
               domain_name |-> Unwrap(c.domainName),
               identity |-> [source_ip |-> Unwrap(Unwrap(c.identity).sourceIp)],
               path |-> Unwrap(c.path)])
    ELSE None

\* RestOrAlbRequestContext with the Alb arm tried first (a faulty variant)
DeserializeAlbFirst(c) == [variant |-> "Alb"]

\* RestOrAlbRequestContext, untagged: Rest is tried first, then Alb, whose
\* empty struct takes every object
DeserializeRestOrAlbRequestContext(c) ==
    IF IsSome(DeserializeRestRequestContext(c))
    THEN Unwrap(DeserializeRestRequestContext(c))
    ELSE [variant |-> "Alb"]

\* ApiGatewayRestEvent: path, httpMethod, multiValueHeaders and
\* requestContext are required
DeserializeRestOrAlb(p) ==
    IF /\ IsSome(p.path) /\ IsSome(p.httpMethod) /\ IsSome(p.multiValueHeaders)
       /\ IsSome(p.requestContext)
    THEN [ok |-> TRUE,
          event |-> [variant |-> "ApiGatewayRestOrAlb",
                     path |-> Unwrap(p.path),
                     http_method |-> Unwrap(p.httpMethod),
                     body |-> None,
                     is_base64_encoded |-> FALSE,
                     multi_value_headers |-> Unwrap(p.multiValueHeaders),
                     multi_value_query_string_parameters |-> None,
                     request_context |-> DeserializeRestOrAlbRequestContext(Unwrap(p.requestContext))]]
    ELSE DecodeErr

\* from_str with the ApiGatewayRestOrAlb arm tried first (a faulty variant)
from_str_rest_first(p) ==
    IF DeserializeRestOrAlb(p).ok THEN DeserializeRestOrAlb(p) ELSE DeserializeV2(p)

\* serde_json::from_str::<LambdaHttpEvent>, untagged: the arms are tried in
\* the order they are declared in
from_str(p) ==
    IF DeserializeV2(p).ok THEN DeserializeV2(p) ELSE DeserializeRestOrAlb(p)

\* the values a field has when the document carries it
Identities == { None, Some([sourceIp |-> None]), Some([sourceIp |-> Some(SourceIp)]) }
RequestContexts ==
    { None }
    \cup { Some([domainName |-> d, http |-> h, identity |-> i, path |-> p]) :
             d \in {None, Some(DomainName)},
             h \in {None, Some([method |-> GET, source_ip |-> SourceIp])},
             i \in Identities,
             p \in {None, Some(Stage \o <<47>>)} }
Payloads ==
    [version : {None, Some(<<50, 46, 48>>)},                                 \* "2.0"
     rawPath : {None, Some(<<47>>)},
     headers : {None, Some(XForwardedPort :> <<52, 52, 51>>)},
     path : {None, Some(<<47>>)},
     httpMethod : {None, Some(GET)},
     multiValueHeaders : {None, Some(XForwardedPort :> << <<52, 52, 51>> >>)},
     requestContext : RequestContexts]

\* the runtime has read a document and deserializes it
DecodeInit ==
    /\ Init!1 /\ Init!2 /\ Init!3 /\ Init!4 /\ Init!5
    /\ Init!6 /\ Init!7 /\ Init!8 /\ Init!9 /\ Init!10
    /\ payload \in { Some(p) : p \in Payloads }
    /\ decoded = None

Deserialize ==
    /\ IsSome(payload)
    /\ decoded = None
    /\ decoded' = Some(from_str(Unwrap(payload)))
    /\ UNCHANGED <<pc, binding, event, path_and_query, client_br, multi_value_out,
                   request, svc_calls, response, result, payload>>

DecodeNext == Deserialize

DecodeSpec == DecodeInit /\ [][DecodeNext]_vars

(***************************************************************************)
(* The serializers on their own (src/hyper014.rs, src/warp03.rs,           *)
(* src/rocket05.rs): one response, with the flags of its invocation, is    *)
(* serialized and then serialized again                                    *)
(***************************************************************************)
\* a serializer that compresses only the first time it is called (a faulty
\* variant)
api_gateway_response_keeping_state(b, r, client_support_br, multi_value_format) ==
    LET br == client_support_br /\ result = None
    IN  IF b = "hyper" THEN api_gateway_response_from_hyper(r, br, multi_value_format)
        ELSE IF b = "warp" THEN api_gateway_response_from_warp(r, br)
        ELSE api_gateway_response_from_rocket(r, br, multi_value_format)

\* the serializer of binding b
api_gateway_response(b, r, client_support_br, multi_value_format) ==
    IF b = "hyper" THEN api_gateway_response_from_hyper(r, client_support_br, multi_value_format)
    ELSE IF b = "warp" THEN api_gateway_response_from_warp(r, client_support_br)
    ELSE api_gateway_response_from_rocket(r, client_support_br, multi_value_format)

SerializeInit ==
    /\ pc = "serializing"
    /\ binding \in {"hyper", "warp", "rocket"}
    /\ response \in { Some(r) : r \in IF binding = "rocket" THEN RocketResponses ELSE HyperResponses }
    /\ client_br \in BOOLEAN
    /\ multi_value_out \in IF binding = "warp" THEN {FALSE} ELSE BOOLEAN
    /\ result = None
    /\ Init!3 /\ Init!4 /\ Init!7 /\ Init!8 /\ Init!11 /\ Init!12

SerializeOnce ==
    /\ pc = "serializing"
    /\ result = None
    /\ result' = Some(api_gateway_response(binding, Unwrap(response), client_br, multi_value_out))
    /\ UNCHANGED <<pc, binding, event, path_and_query, client_br, multi_value_out,
                   request, svc_calls, response, payload, decoded>>

SerializeAgain ==
    /\ pc = "serializing"
    /\ result # None
    /\ result' = Some(api_gateway_response(binding, Unwrap(response), client_br, multi_value_out))
    /\ pc' = "done"
    /\ UNCHANGED <<binding, event, path_and_query, client_br, multi_value_out,
                   request, svc_calls, response, payload, decoded>>

SerializeNext ==
    \/ SerializeOnce
    \/ SerializeAgain

SerializeSpec == SerializeInit /\ [][SerializeNext]_vars

(***************************************************************************)
(* Properties of path_query()                                              *)
(*                                                                         *)
(* While an invocation holds its event (from the call until the framework  *)
(* answers, and after a failed conversion), path_and_query is what         *)
(* path_query() returned for it.                                           *)
(***************************************************************************)
\* the part of a path?query before its first '?'
PathPart(pq) ==
    LET q == FirstIndex(pq, 63)
    IN  IF q = 0 THEN pq ELSE SubSeq(pq, 1, q - 1)

\* the bytes that have to come out escaped: control characters, space,
\* " # % + : < > ? @ [ \ ] ^ ` { | } and the bytes of non-ASCII characters
MustBeEscaped(b) ==
    \/ b <= 31 \/ b = 127 \/ b >= 128
    \/ b \in {32, 34, 35, 37, 43, 58, 60, 62, 63, 64, 91, 92, 93, 94, 96, 123, 124, 125}

\* "0123456789ABCDEF"
UpperHexDigits == <<48, 49, 50, 51, 52, 53, 54, 55, 56, 57, 65, 66, 67, 68, 69, 70>>

\* out is raw with each byte that must be escaped replaced by '%' and its two
\* upper-case hexadecimal digits, and every other byte left as it is
RECURSIVE IsEscapedFormOf(_, _)
IsEscapedFormOf(out, raw) ==
    IF raw = <<>> THEN out = <<>>
    ELSE IF MustBeEscaped(raw[1]) THEN
        /\ Len(out) >= 3
        /\ out[1] = 37
        /\ out[2] = UpperHexDigits[(raw[1] \div 16) + 1]
        /\ out[3] = UpperHexDigits[(raw[1] % 16) + 1]
        /\ IsEscapedFormOf(Drop(out, 3), Tail(raw))
    ELSE
        /\ Len(out) >= 1
        /\ out[1] = raw[1]
        /\ IsEscapedFormOf(Tail(out), Tail(raw))

HoldsV2Event == IsSome(event) /\ IsV2(Unwrap(event))
HoldsRestOrAlbEvent == IsSome(event) /\ IsRestOrAlb(Unwrap(event))

\* C1: for every HttpApiV2 event the path part of path_query() is rawPath
\* with every control character, space, " # % + : < > ? @ [ \ ] ^ ` { | }
\* and every byte of a non-ASCII character replaced by its upper-case %XX
\* escape and every other byte ('/' too) unchanged; "/path with/space" gives
\* "/path%20with/space" and "/path%with/percent" gives "/path%25with/percent".
C1_V2PathEscaped ==
    HoldsV2Event =>
        LET raw == Unwrap(event).raw_path
            part == PathPart(path_and_query)
        IN  /\ IsEscapedFormOf(part, raw)
            /\ raw = <<47, 112, 97, 116, 104, 32, 119, 105, 116, 104, 47, 115, 112, 97, 99, 101>>
               => part = <<47, 112, 97, 116, 104, 37, 50, 48, 119, 105, 116, 104, 47, 115, 112, 97, 99, 101>>
            /\ raw = <<47, 112, 97, 116, 104, 37, 119, 105, 116, 104, 47, 112, 101, 114, 99, 101, 110, 116>>
               => part = <<47, 112, 97, 116, 104, 37, 50, 53, 119, 105, 116, 104, 47, 112, 101, 114, 99, 101,
                           110, 116>>

\* the event with rawPath "/path%with/percent" has been converted
C1_Witness ==
    /\ HoldsV2Event
    /\ Unwrap(event).raw_path =
         <<47, 112, 97, 116, 104, 37, 119, 105, 116, 104, 47, 112, 101, 114, 99, 101, 110, 116>>
    /\ path_and_query =
         <<47, 112, 97, 116, 104, 37, 50, 53, 119, 105, 116, 104, 47, 112, 101, 114, 99, 101, 110, 116>>

\* C2: for every HttpApiV2 event path_query() is the encoded rawPath alone
\* when rawQueryString is empty or absent, and otherwise the encoded rawPath,
\* "?" and rawQueryString byte for byte; "/somewhere" with "key=value" gives
\* "/somewhere?key=value".
C2_V2QueryVerbatim ==
    HoldsV2Event =>
        LET ev == Unwrap(event)
            query == ev.raw_query_string
            q == FirstIndex(path_and_query, 63)
        IN  /\ IF query = None \/ query = Some(<<>>)
               THEN /\ q = 0
                    /\ IsEscapedFormOf(path_and_query, ev.raw_path)
               ELSE /\ q > 0
                    /\ IsEscapedFormOf(SubSeq(path_and_query, 1, q - 1), ev.raw_path)
                    /\ Drop(path_and_query, q) = Unwrap(query)
            /\ ( /\ ev.raw_path = <<47, 115, 111, 109, 101, 119, 104, 101, 114, 101>>
                 /\ query = Some(<<107, 101, 121, 61, 118, 97, 108, 117, 101>>) )
               => path_and_query = <<47, 115, 111, 109, 101, 119, 104, 101, 114, 101, 63,
                                     107, 101, 121, 61, 118, 97, 108, 117, 101>>

\* the event with rawQueryString "key=value1+value2" has been converted and
\* the '+' is still there
C2_Witness ==
    /\ HoldsV2Event
    /\ Unwrap(event).raw_query_string =
         Some(<<107, 101, 121, 61, 118, 97, 108, 117, 101, 49, 43, 118, 97, 108, 117, 101, 50>>)
    /\ path_and_query =
         <<47, 63, 107, 101, 121, 61, 118, 97, 108, 117, 101, 49, 43, 118, 97, 108, 117, 101, 50>>

\* the path field a RestOrAlb event is routed by: requestContext.path of the
\* REST gateway, path of an ALB
DeliveredPath(ev) ==
    IF ev.request_context.variant = "Rest" THEN ev.request_context.path ELSE ev.path

\* what follows the delivered path and one more byte in path_and_query
QueryPart(ev) == Drop(path_and_query, Len(DeliveredPath(ev)) + 1)

\* one key=value item per pair of the map, keys in the order korder, the
\* values of a key in list order, key and value encoded by the codec
EncodedPairs(params, korder) ==
    Concat([i \in 1..Len(korder) |->
        [j \in 1..Len(params[korder[i]]) |->
            encode_path_query(korder[i]) \o <<61>> \o encode_path_query(params[korder[i]][j])]])

\* the event holds a query map with at least one key
HoldsQueryMap ==
    /\ HoldsRestOrAlbEvent
    /\ IsSome(Unwrap(event).multi_value_query_string_parameters)
    /\ DOMAIN Unwrap(Unwrap(event).multi_value_query_string_parameters) # {}

\* C3: for every RestOrAlb event with a non-empty multiValueQueryStringParameters
\* the query part of path_query() is the '&'-join of one key=value item per
\* (key, value) pair, the values of a key in list order, key and value each
\* encoded by the codec; "value1 value2" under "key" gives "key=value1%20value2".
C3_QueryPairsEncoded ==
    HoldsQueryMap =>
        LET ev == Unwrap(event)
            params == Unwrap(ev.multi_value_query_string_parameters)
        IN  /\ \E korder \in Orders(DOMAIN params) :
                  QueryPart(ev) = Join(EncodedPairs(params, korder), <<38>>)
            /\ params = (KEY :> << <<118, 97, 108, 117, 101, 49, 32, 118, 97, 108, 117, 101, 50>> >>)
               => QueryPart(ev) = <<107, 101, 121, 61, 118, 97, 108, 117, 101, 49, 37, 50, 48,
                                    118, 97, 108, 117, 101, 50>>

\* the event with key: ["value1 value2"] has been converted
C3_Witness ==
    /\ HoldsQueryMap
    /\ Unwrap(Unwrap(event).multi_value_query_string_parameters) =
         (KEY :> << <<118, 97, 108, 117, 101, 49, 32, 118, 97, 108, 117, 101, 50>> >>)
    /\ QueryPart(Unwrap(event)) =
         <<107, 101, 121, 61, 118, 97, 108, 117, 101, 49, 37, 50, 48, 118, 97, 108, 117, 101, 50>>

\* C4: for every REST event the path part of path_query() is
\* requestContext.path as delivered, stage prefix retained and not encoded
\* again ("/stage/path%20with/space" stays as it is); for an ALB event it is
\* the top-level path.
C4_DeliveredPathKept ==
    HoldsRestOrAlbEvent =>
        LET ev == Unwrap(event)
            path == IF IsRest(ev) THEN ev.request_context.path ELSE ev.path
        IN  /\ StartsWith(path_and_query, path)
            /\ Len(path_and_query) > Len(path) => path_and_query[Len(path) + 1] = 63
            /\ IsRest(ev) => StartsWith(path_and_query, Stage)

\* a REST event with requestContext.path "/stage/path%20with/space" and no
\* query map has been converted
C4_Witness ==
    /\ HoldsRestOrAlbEvent
    /\ IsRest(Unwrap(event))
    /\ Unwrap(event).request_context.path =
         <<47, 115, 116, 97, 103, 101, 47, 112, 97, 116, 104, 37, 50, 48, 119, 105, 116, 104, 47,
           115, 112, 97, 99, 101>>
    /\ path_and_query = Unwrap(event).request_context.path

\* C5 as the specification states it: for every RestOrAlb event the path in
\* path_query() has been passed through the codec, a literal space, '%' or
\* non-ASCII byte coming out as %20, %25 or %XX.
C5_PathPassedThroughCodec ==
    HoldsRestOrAlbEvent =>
        LET encoded == encode_path_query(DeliveredPath(Unwrap(event)))
        IN  /\ StartsWith(path_and_query, encoded)
            /\ Len(path_and_query) > Len(encoded) => path_and_query[Len(encoded) + 1] = 63

\* C5: for every RestOrAlb event the path is placed into path_query()
\* byte for byte and is not passed through the codec: a literal space, '%'
\* or non-ASCII byte of the path is still there, at its place, and the path
\* placed is the codec's output only when the codec has nothing to escape.
C5_PathNotEncoded ==
    HoldsRestOrAlbEvent =>
        LET path == DeliveredPath(Unwrap(event))
            placed == SubSeq(path_and_query, 1, Len(path))
        IN  /\ Len(path_and_query) >= Len(path)
            /\ \A i \in 1..Len(path) : MustBeEscaped(path[i]) => placed[i] = path[i]
            /\ (placed = encode_path_query(path)) <=> (\A i \in 1..Len(path) : ~MustBeEscaped(path[i]))

\* an ALB event with path "/path with/space" has been converted and the
\* space is still a space
C5_Witness ==
    /\ HoldsRestOrAlbEvent
    /\ IsAlb(Unwrap(event))
    /\ Unwrap(event).path = <<47, 112, 97, 116, 104, 32, 119, 105, 116, 104, 47, 115, 112, 97, 99, 101>>
    /\ path_and_query = <<47, 112, 97, 116, 104, 32, 119, 105, 116, 104, 47, 115, 112, 97, 99, 101>>

\* C6: for a RestOrAlb event whose multiValueQueryStringParameters is present
\* but empty, path_query() is the path alone, no '?' appended: the REST root
\* event gives exactly "/stage/".
C6_EmptyMapGivesPathAlone ==
    ( /\ HoldsRestOrAlbEvent
      /\ Unwrap(event).multi_value_query_string_parameters = Some(<<>>) )
    => /\ path_and_query = DeliveredPath(Unwrap(event))
       /\ Unwrap(event) = RestBase => path_and_query = <<47, 115, 116, 97, 103, 101, 47>>

(***************************************************************************)
(* Properties of body()                                                    *)
(*                                                                         *)
(* Both conversions take the body of the request from event.body()?, so    *)
(* request.body is what body() returned when the conversion succeeded, and *)
(* the conversion fails when body() fails.                                 *)
(***************************************************************************)
\* C7: for every event of either variant body() gives no bytes when body is
\* absent, the base64-decoded bytes when body is present and isBase64Encoded
\* (an error when the string is no base64: the bytes given encode back to
\* the string, padding aside, and a string with a byte outside the alphabet
\* gives none), and the bytes of the string itself otherwise.
C7_BodyDecoded ==
    IsSome(event) =>
        LET ev == Unwrap(event)
        IN  /\ request.ok =>
                 IF ev.body = None THEN request.body = <<>>
                 ELSE IF ev.is_base64_encoded
                      THEN StripPad(Base64Encode(request.body)) = StripPad(Unwrap(ev.body))
                      ELSE request.body = Unwrap(ev.body)
            /\ ( /\ IsSome(ev.body)
                 /\ ev.is_base64_encoded
                 /\ \E i \in 1..Len(Unwrap(ev.body)) :
                        ~IsB64Char(Unwrap(ev.body)[i]) /\ Unwrap(ev.body)[i] # 61 )
               => ~request.ok
            /\ (ev.body = Some(<<97, 71, 107, 61>>) /\ request.ok)          \* "aGk="
               => request.body = (IF ev.is_base64_encoded THEN <<104, 105>>  \* "hi"
                                  ELSE <<97, 71, 107, 61>>)

\* the event with body "aGk=" and isBase64Encoded has been converted, the
\* request's body is "hi"
C7_Witness ==
    /\ IsSome(event)
    /\ Unwrap(event).body = Some(<<97, 71, 107, 61>>)
    /\ Unwrap(event).is_base64_encoded
    /\ request.ok
    /\ request.body = <<104, 105>>

(***************************************************************************)
(* Properties of the envelopes                                             *)
(***************************************************************************)
\* call() has resolved to the envelope of a framework response
Answered ==
    /\ pc = "done"
    /\ IsSome(response)
    /\ Unwrap(result).ok
    /\ Unwrap(result).value.isBase64Encoded

\* C8: for every event handled by a binding that takes LambdaHttpEvent, the
\* envelope built from a framework response has the multi-value shape (key
\* multiValueHeaders, no headers and no cookies key) exactly when the event
\* is RestOrAlb, and the v2 shape (keys headers and cookies) exactly when
\* the event is HttpApiV2.
C8_ShapeFollowsVariant ==
    [][ ( /\ pc = "awaiting"
          /\ IsSome(response')
          /\ Unwrap(result').ok
          /\ Unwrap(result').value.isBase64Encoded )
        => LET keys == DOMAIN Unwrap(result').value
               multi == "multiValueHeaders" \in keys /\ "headers" \notin keys /\ "cookies" \notin keys
               v2 == "headers" \in keys /\ "cookies" \in keys
           IN  /\ multi <=> IsRestOrAlb(Unwrap(event))
               /\ v2 <=> IsV2(Unwrap(event)) ]_vars

\* the header lines of the response with the name of line l, names compared
\* without case
LinesNamedAs(lines, l) ==
    SelectSeq(lines, LAMBDA m : to_ascii_lowercase(m[1]) = to_ascii_lowercase(l[1]))
ValuesOf(lines) == [i \in 1..Len(lines) |-> lines[i][2]]
IsSetCookieLine(l) == to_ascii_lowercase(l[1]) = SET_COOKIE

\* C9: in the v2 envelope built by the hyper and rocket serializers, headers
\* never has a set-cookie key: every Set-Cookie value of the framework
\* response is, in response order, an element of cookies, and every other
\* header is in headers as a single string.
C9_SetCookieMovedToCookies ==
    (Answered /\ binding \in {"hyper", "rocket"} /\ ~multi_value_out) =>
        LET lines == Unwrap(response).headers
            env == Unwrap(result).value
        IN  /\ \A k \in DOMAIN env.headers : to_ascii_lowercase(k) # SET_COOKIE
            /\ env.cookies = ValuesOf(SelectSeq(lines, IsSetCookieLine))
            /\ \A i \in 1..Len(lines) :
                 ~IsSetCookieLine(lines[i]) =>
                     \E k \in DOMAIN env.headers :
                        /\ to_ascii_lowercase(k) = to_ascii_lowercase(lines[i][1])
                        /\ env.headers[k] \in Range(ValuesOf(LinesNamedAs(lines, lines[i])))

\* C10 as the specification states it: in the multi-value envelope
\* multiValueHeaders maps each header name of the framework response to the
\* array of all of its values in response order, set-cookie too, no value lost.
C10_AllValuesKept ==
    (Answered /\ binding \in {"hyper", "rocket"} /\ multi_value_out) =>
        LET lines == Unwrap(response).headers
            mvh == Unwrap(result).value.multiValueHeaders
        IN  \A i \in 1..Len(lines) :
                \E k \in DOMAIN mvh :
                   /\ to_ascii_lowercase(k) = to_ascii_lowercase(lines[i][1])
                   /\ mvh[k] = ValuesOf(LinesNamedAs(lines, lines[i]))

\* C10: in the multi-value envelope multiValueHeaders maps each header name
\* of the framework response to the array of those of its values that are
\* visible ASCII, in response order, set-cookie too; a value that is not is
\* left out, and a name without a value left has no key; when the body is
\* compressed the content-encoding entry is ["br"].
C10_ReadableValuesKept ==
    (Answered /\ binding \in {"hyper", "rocket"} /\ multi_value_out) =>
        LET r == Unwrap(response)
            lines == r.headers
            env == Unwrap(result).value
            mvh == env.multiValueHeaders
            compressed == env.body # Base64Encode(IF r.body_err THEN <<>> ELSE r.body)
        IN  \A i \in 1..Len(lines) :
                LET name == to_ascii_lowercase(lines[i][1])
                    kept == SelectSeq(ValuesOf(LinesNamedAs(lines, lines[i])), HeaderValueIsStr)
                    keys == { k \in DOMAIN mvh : to_ascii_lowercase(k) = name }
                IN  IF compressed /\ name = CONTENT_ENCODING
                    THEN keys = {CONTENT_ENCODING} /\ mvh[CONTENT_ENCODING] = <<BR>>
                    ELSE IF kept = <<>> THEN keys = {}
                    ELSE Cardinality(keys) = 1 /\ \A k \in keys : mvh[k] = kept

\* the hyper serializer has built the multi-value envelope of a response
\* with two Set-Cookie lines and both values are under set-cookie
C10_Witness ==
    /\ Answered
    /\ binding = "hyper"
    /\ multi_value_out
    /\ Unwrap(response).headers = << <<SET_COOKIE, <<97, 61, 49>> >>, <<SET_COOKIE, <<98, 61, 50>> >> >>
    /\ Unwrap(result).value.multiValueHeaders = (SET_COOKIE :> << <<97, 61, 49>>, <<98, 61, 50>> >>)

(***************************************************************************)
(* Properties of the compression                                           *)
(***************************************************************************)
\* the header lines of the response named name, names compared without case
LinesNamed(lines, name) == LinesNamedAs(lines, <<name, <<>> >>)

\* what the serializer read as the body of the response
BodyRead(r) == IF r.body_err THEN <<>> ELSE r.body

\* the client accepts brotli, the response carries no Content-Encoding
\* header and its Content-Type, trimmed and in lower case, starts with one
\* of the compressible types
EligibleAsStated(r) ==
    /\ client_br
    /\ LinesNamed(r.headers, CONTENT_ENCODING) = <<>>
    /\ LinesNamed(r.headers, CONTENT_TYPE) # <<>>
    /\ \E p \in CompressibleTypePrefixes :
           StartsWith(to_ascii_lowercase(trim(LinesNamed(r.headers, CONTENT_TYPE)[1][2])), p)

\* C11: the response body is brotli-compressed if and only if the client
\* accepts brotli, the framework response carries no Content-Encoding header
\* and its Content-Type, trimmed and lower-cased, starts with text/,
\* application/json, application/xhtml, application/xml, application/wasm or
\* image/svg; with image/png, without Content-Type or with any
\* Content-Encoding it is never compressed.
C11_CompressedIffEligible ==
    (Answered /\ Unwrap(response).brotli_err = None) =>
        LET r == Unwrap(response)
            env == Unwrap(result).value
        IN  (env.body = Base64Encode(BrotliCompress(BodyRead(r)))) <=> EligibleAsStated(r)

\* the accept-encoding header values of an event: the single value of an
\* HttpApiV2 event, the list of a RestOrAlb event, none when there is no header
AcceptEncodingValues(ev) ==
    IF IsV2(ev)
    THEN (IF ACCEPT_ENCODING \in DOMAIN ev.headers THEN <<ev.headers[ACCEPT_ENCODING]>> ELSE <<>>)
    ELSE (IF ACCEPT_ENCODING \in DOMAIN ev.multi_value_headers
          THEN ev.multi_value_headers[ACCEPT_ENCODING] ELSE <<>>)

\* some comma-separated element of v has, before its first ';', trimmed and
\* without regard to case, the name br
NamesBr(v) ==
    \E e \in Range(Split(v, 44)) :
        to_ascii_lowercase(trim(SubSeq(e, 1, IF FirstIndex(e, 59) = 0 THEN Len(e)
                                             ELSE FirstIndex(e, 59) - 1))) = <<98, 114>>

\* C12: client_supports_brotli() is true if and only if some accept-encoding
\* value of the event (the single value for HttpApiV2, any value of the list
\* for RestOrAlb) has a comma-separated element whose part before the first
\* ';', trimmed and compared without case, is "br"; "gzip, br;q=0.8" gives
\* true, "gzip" or an absent header false.
C12_ClientSupportsBrotli ==
    IsSome(event) =>
        LET vals == AcceptEncodingValues(Unwrap(event))
        IN  /\ client_br <=> \E i \in 1..Len(vals) : NamesBr(vals[i])
            /\ vals = << <<103, 122, 105, 112, 44, 32, 98, 114, 59, 113, 61, 48, 46, 56>> >> => client_br
            /\ (vals = <<>> \/ vals = << <<103, 122, 105, 112>> >>) => ~client_br

\* the event with accept-encoding "gzip, br;q=0.8" has been looked at: the
\* client supports brotli
C12_Witness ==
    /\ IsSome(event)
    /\ AcceptEncodingValues(Unwrap(event)) =
         << <<103, 122, 105, 112, 44, 32, 98, 114, 59, 113, 61, 48, 46, 56>> >>
    /\ client_br

\* the decision of the serializer of the binding: the client supports brotli
\* and can_brotli_compress() of the response is true
Eligible(r) ==
    /\ client_br
    /\ IF binding = "rocket"
       THEN can_brotli_compress(RocketContentEncoding(r), RocketContentType(r))
       ELSE can_brotli_compress(HyperContentEncoding(r), HyperContentType(r))

\* the header map of an envelope, whatever its shape
HeadersOf(env) == IF "multiValueHeaders" \in DOMAIN env THEN env.multiValueHeaders ELSE env.headers

\* the content-encoding keys of a header map
ContentEncodingKeys(map) == { k \in DOMAIN map : to_ascii_lowercase(k) = CONTENT_ENCODING }

\* C13: when the response is eligible for compression and the compressor
\* succeeds, the body of the envelope is the base64 text of the brotli stream
\* of the response body and the header map has the entry content-encoding,
\* the string "br" in the v2 (and warp) shape and the array ["br"] in the
\* multi-value shape; when it is not eligible the body is the base64 text of
\* the unchanged response body and the only content-encoding entry there can
\* be is the one of the response itself.
C13_EligibleBodyCompressed ==
    (Answered /\ Unwrap(response).brotli_err = None) =>
        LET r == Unwrap(response)
            env == Unwrap(result).value
            map == HeadersOf(env)
            own == SelectSeq(ValuesOf(LinesNamed(r.headers, CONTENT_ENCODING)), HeaderValueIsStr)
        IN  IF Eligible(r)
            THEN /\ env.body = Base64Encode(BrotliCompress(BodyRead(r)))
                 /\ ContentEncodingKeys(map) = {CONTENT_ENCODING}
                 /\ map[CONTENT_ENCODING] = IF "multiValueHeaders" \in DOMAIN env THEN <<BR>> ELSE BR
            ELSE /\ env.body = Base64Encode(BodyRead(r))
                 /\ IF own = <<>> THEN ContentEncodingKeys(map) = {}
                    ELSE \A k \in ContentEncodingKeys(map) :
                            map[k] = IF "multiValueHeaders" \in DOMAIN env THEN own ELSE own[Len(own)]

\* a text/html response to a client that supports brotli has been serialized
\* in the v2 shape: the body is compressed and content-encoding is "br"
C13_Witness ==
    /\ Answered
    /\ Unwrap(response).brotli_err = None
    /\ Eligible(Unwrap(response))
    /\ Unwrap(response).body = <<104, 105>>
    /\ "cookies" \in DOMAIN Unwrap(result).value
    /\ Unwrap(result).value.headers[CONTENT_ENCODING] = BR
    /\ Unwrap(result).value.body = Base64Encode(BrotliCompress(<<104, 105>>))

\* C14: when the brotli compressor reports an error on an eligible response
\* the serializer falls back: the body of the envelope is the base64 text of
\* the uncompressed response body and no content-encoding: br entry is added.
C14_FallsBackOnCompressorError ==
    (Answered /\ Unwrap(response).brotli_err # None /\ Eligible(Unwrap(response))) =>
        LET r == Unwrap(response)
            env == Unwrap(result).value
        IN  /\ env.body = Base64Encode(BodyRead(r))
            /\ ContentEncodingKeys(HeadersOf(env)) = {}

(***************************************************************************)
(* Properties of call()                                                    *)
(***************************************************************************)
\* the conversion of the event held has failed
ConversionFailed == pc = "done" /\ IsSome(event) /\ ~request.ok

\* C15: when the conversion of the event fails (a method that is none, or a
\* body marked isBase64Encoded that is no base64 text) the handler resolves
\* to Ok of exactly isBase64Encoded false, statusCode 400, headers
\* content-type: text/plain and body "Bad Request".
C15_BadRequestOnConversionFailure ==
    IsSome(event) =>
        LET ev == Unwrap(event)
        IN  /\ ( \/ method(ev) \in { <<71, 32, 84>>, <<>> }                        \* "G T", ""
                 \/ /\ ev.is_base64_encoded
                    /\ ev.body \in { Some(<<89>>), Some(<<97, 32, 98, 33>>),       \* "Y", "a b!"
                                     Some(<<89, 82, 61, 61>>) } )                  \* "YR=="
               => ConversionFailed
            /\ ConversionFailed =>
                 result = Some([ok |-> TRUE,
                                value |-> [isBase64Encoded |-> FALSE,
                                           statusCode |-> 400,
                                           headers |-> (<<99, 111, 110, 116, 101, 110, 116, 45, 116, 121, 112, 101>>
                                                        :> <<116, 101, 120, 116, 47, 112, 108, 97, 105, 110>>),
                                           body |-> <<66, 97, 100, 32, 82, 101, 113, 117, 101, 115, 116>>]])

\* an event whose body is marked isBase64Encoded and is no base64 text has
\* been answered
C15_Witness ==
    /\ ConversionFailed
    /\ Unwrap(event).is_base64_encoded
    /\ Unwrap(event).body = Some(<<97, 32, 98, 33>>)
    /\ IsSome(result)

\* C16: in every invocation the service of the framework is called at most
\* once, and only in the step in which the event has been converted; it is
\* never called when the conversion fails.
C16_ServiceCalledOnceAfterConversion ==
    /\ [](svc_calls <= 1 /\ (ConversionFailed => svc_calls = 0))
    /\ [][svc_calls' > svc_calls =>
            (svc_calls = 0 /\ svc_calls' = 1 /\ pc = "idle" /\ request'.ok)]_vars

\* the event has been converted and the service called once
C16_Witness ==
    /\ pc = "awaiting"
    /\ IsSome(event)
    /\ request.ok
    /\ svc_calls = 1

\* C17: for every event and every outcome of the framework call() resolves
\* to Ok(envelope), never to Err; when the service fails, or reading the body
\* of its response fails, the envelope is isBase64Encoded false, statusCode
\* 500, headers content-type: text/plain, body "Internal Server Error".
C17_AlwaysOkEnvelope ==
    pc = "done" =>
        /\ IsSome(result)
        /\ Unwrap(result).ok
        /\ ( \/ (svc_calls = 1 /\ response = None)
             \/ (IsSome(response) /\ Unwrap(response).body_err) )
           => Unwrap(result).value =
                [isBase64Encoded |-> FALSE,
                 statusCode |-> 500,
                 headers |-> (<<99, 111, 110, 116, 101, 110, 116, 45, 116, 121, 112, 101>>
                              :> <<116, 101, 120, 116, 47, 112, 108, 97, 105, 110>>),
                 body |-> <<73, 110, 116, 101, 114, 110, 97, 108, 32, 83, 101, 114, 118, 101, 114,
                            32, 69, 114, 114, 111, 114>>]

(***************************************************************************)
(* Properties of the cookies                                               *)
(***************************************************************************)
COOKIE == <<99, 111, 111, 107, 105, 101>>

\* the values a list of cookies may be merged into: its elements with "; "
\* between them, two elements in either order
MergedCookies(cs) ==
    IF Len(cs) = 2 THEN { cs[1] \o <<59, 32>> \o cs[2], cs[2] \o <<59, 32>> \o cs[1] }
    ELSE { Join(cs, <<59, 32>>) }

\* the values of the cookie header of the request that was built
CookieHeaderValues ==
    IF binding = "rocket"
    THEN ValuesOf(SelectSeq(request.headers, LAMBDA p : to_ascii_lowercase(p[1]) = COOKIE))
    ELSE IF COOKIE \in DOMAIN request.headers THEN <<request.headers[COOKIE]>> ELSE <<>>

\* C18: for every HttpApiV2 event that has a cookies array headers() has
\* exactly one ("cookie", v) pair, v being the elements of the array joined
\* with "; " (two elements in either order), and the request built from it
\* carries v as its cookie header; when the event has no cookies field there
\* is no cookie pair and the request has no cookie header.
C18_CookiesMergedIntoOneHeader ==
    (HoldsV2Event /\ pc = "awaiting") =>
        LET cs == Unwrap(event).cookies
        IN  IF IsSome(cs)
            THEN /\ Len(CookieHeaderValues) = 1
                 /\ CookieHeaderValues[1] \in MergedCookies(Unwrap(cs))
            ELSE CookieHeaderValues = <<>>

\* the event with the cookies [b=2, a=1] has been converted for hyper and the
\* request carries one cookie header with both
C18_Witness ==
    /\ HoldsV2Event
    /\ pc = "awaiting"
    /\ binding = "hyper"
    /\ Unwrap(event).cookies = Some(<< <<98, 61, 50>>, <<97, 61, 49>> >>)
    /\ Len(CookieHeaderValues) = 1
    /\ Len(CookieHeaderValues[1]) = 8

\* C19: for the HttpApiV2 event whose cookies array is ["cookie2=value2",
\* "cookie1=value1"], cookies() is ["cookie1=value1", "cookie2=value2"] and
\* the cookie header of the hyper request is "cookie1=value1; cookie2=value2",
\* as they are for the REST event with the cookie header
\* "cookie1=value1; cookie2=value2".
C19_TwoCookiesInNameOrder ==
    ( /\ pc = "awaiting"
      /\ IsSome(event)
      /\ Unwrap(event) \in { V2TwoCookies, RestTwoCookies } )
    => /\ cookies(Unwrap(event)) = <<Cookie1, Cookie2>>
       /\ binding = "hyper" => CookieHeaderValues = <<Cookie1 \o <<59, 32>> \o Cookie2>>

\* C20: an element of the HttpApiV2 cookies array that is no valid encoded
\* cookie (a string without '=', say) is left out of the merged cookie header
\* value, the valid elements are still merged, and the conversion of the
\* event does not fail.
C20_InvalidCookiesLeftOut ==
    (HoldsV2Event /\ IsSome(Unwrap(event).cookies)) =>
        LET valid == SelectSeq(Unwrap(Unwrap(event).cookies),
                               LAMBDA c : IsSome(CookieParseEncoded(c)))
        IN  /\ pc = "awaiting"
            /\ request.ok
            /\ Len(CookieHeaderValues) = 1
            /\ CookieHeaderValues[1] \in MergedCookies(valid)

(***************************************************************************)
(* Properties of the headers and the source address                        *)
(***************************************************************************)
\* C21: for every RestOrAlb event headers() has exactly one (name, value)
\* pair per value of every multiValueHeaders entry: the pairs of a key are
\* its values in the order of its list, a key with one value has one pair
\* ({"x-forwarded-port": ["443"]} gives the single pair
\* ("x-forwarded-port", "443")), and there is no other pair.
C21_OnePairPerHeaderValue ==
    (HoldsRestOrAlbEvent /\ pc = "awaiting" /\ binding = "rocket") =>
        LET mvh == Unwrap(event).multi_value_headers
            pairs == request.headers
        IN  /\ \A k \in DOMAIN mvh :
                 ValuesOf(SelectSeq(pairs, LAMBDA p : p[1] = k)) = mvh[k]
            /\ \A i \in 1..Len(pairs) : pairs[i][1] \in DOMAIN mvh
            /\ mvh = (XForwardedPort :> << <<52, 52, 51>> >>)
                 => pairs = << <<XForwardedPort, <<52, 52, 51>> >> >>

\* the REST event with two accept-encoding values has been converted: both
\* are pairs of headers(), in the order of the list
C21_Witness ==
    /\ HoldsRestOrAlbEvent
    /\ pc = "awaiting"
    /\ binding = "rocket"
    /\ ACCEPT_ENCODING \in DOMAIN Unwrap(event).multi_value_headers
    /\ Unwrap(event).multi_value_headers[ACCEPT_ENCODING] = << <<103, 122, 105, 112>>, <<66, 82>> >>
    /\ ValuesOf(SelectSeq(request.headers, LAMBDA p : p[1] = ACCEPT_ENCODING))
         = << <<103, 122, 105, 112>>, <<66, 82>> >>

\* the sourceIp string an event carries: requestContext.http.sourceIp of an
\* HttpApiV2 event, requestContext.identity.sourceIp of a Rest event, none
\* for an ALB event
SourceIpString(ev) ==
    IF ev.variant = "ApiGatewayHttpV2" THEN Some(ev.request_context.http.source_ip)
    ELSE IF ev.request_context.variant = "Rest" THEN Some(ev.request_context.identity.source_ip)
    ELSE None

\* the addresses the sourceIp strings of the events stand for
StatedAddress(s) ==
    IF s = <<49, 46, 50, 46, 51, 46, 52>> THEN Some([family |-> "V4", addr |-> <<1, 2, 3, 4>>])   \* 1.2.3.4
    ELSE IF s = <<58, 58, 49>> THEN Some([family |-> "V6", addr |-> <<0, 0, 0, 0, 0, 0, 0, 1>>]) \* ::1
    ELSE None                                                                                   \* 1.2.3, ""

\* the event held differs from GET / of its gateway at most in its sourceIp
OnlySourceIpVaries ==
    /\ IsSome(event)
    /\ \/ Unwrap(event) \in { [V2Base EXCEPT !.request_context.http.source_ip = ip] : ip \in SourceIps }
       \/ Unwrap(event) \in { [RestBase EXCEPT !.request_context.identity.source_ip = ip] : ip \in SourceIps }
       \/ Unwrap(event) \in { V2Base, RestBase, AlbBase }

\* C22: source_ip() never makes the conversion of the event fail: it is the
\* parsed address (IPv4 or IPv6) of an HttpApiV2 or Rest event whose
\* sourceIp string parses, absent when the string does not parse, and absent
\* for every ALB event.
C22_SourceIpNeverFails ==
    /\ IsSome(event) =>
         LET s == SourceIpString(Unwrap(event))
             stated == IF IsSome(s) THEN StatedAddress(Unwrap(s)) ELSE None
         IN  /\ source_ip(Unwrap(event)) = stated
             /\ (pc = "awaiting" /\ binding = "rocket") =>
                  request.remote = IF IsSome(stated) THEN Unwrap(stated)
                                   ELSE [family |-> "V4", addr |-> <<0, 0, 0, 0>>]
    /\ OnlySourceIpVaries => (pc = "awaiting" /\ request.ok)

\* the REST event whose sourceIp is "1.2.3" has been converted for Rocket:
\* there is no source address and the request was built
C22_Witness ==
    /\ pc = "awaiting"
    /\ binding = "rocket"
    /\ IsSome(event)
    /\ Unwrap(event) = [RestBase EXCEPT !.request_context.identity.source_ip = <<49, 46, 50, 46, 51>>]
    /\ request.ok
    /\ request.remote = [family |-> "V4", addr |-> <<0, 0, 0, 0>>]

(***************************************************************************)
(* Properties of the deserialization                                       *)
(***************************************************************************)
\* the document has every key the HttpApiV2 shape requires
SatisfiesV2(p) ==
    /\ IsSome(p.version) /\ IsSome(p.rawPath) /\ IsSome(p.headers)
    /\ IsSome(p.requestContext)
    /\ IsSome(Unwrap(p.requestContext).domainName)
    /\ IsSome(Unwrap(p.requestContext).http)

\* the document has every key the RestOrAlb shape requires
SatisfiesRestOrAlb(p) ==
    /\ IsSome(p.path) /\ IsSome(p.httpMethod) /\ IsSome(p.multiValueHeaders)
    /\ IsSome(p.requestContext)

Deserialized == IsSome(payload) /\ IsSome(decoded)

\* C23: a payload is tried against the HttpApiV2 shape first and against the
\* RestOrAlb shape only when that fails: a payload that satisfies both is
\* HttpApiV2, one that satisfies neither fails to deserialize, and every
\* accepted payload is exactly one variant.
C23_V2ShapeTriedFirst ==
    Deserialized =>
        LET p == Unwrap(payload)
            d == Unwrap(decoded)
        IN  /\ SatisfiesV2(p) => (d.ok /\ d.event.variant = "ApiGatewayHttpV2")
            /\ (~SatisfiesV2(p) /\ SatisfiesRestOrAlb(p))
                 => (d.ok /\ d.event.variant = "ApiGatewayRestOrAlb")
            /\ (~SatisfiesV2(p) /\ ~SatisfiesRestOrAlb(p)) => ~d.ok
            /\ d.ok => (IsV2(d.event) <=> ~IsRestOrAlb(d.event))

\* a document with the keys of both shapes has been deserialized as HttpApiV2
C23_Witness ==
    /\ Deserialized
    /\ SatisfiesV2(Unwrap(payload))
    /\ SatisfiesRestOrAlb(Unwrap(payload))
    /\ Unwrap(decoded).ok
    /\ IsV2(Unwrap(decoded).event)

\* a document has been deserialized as a RestOrAlb event
DeserializedRestOrAlb ==
    Deserialized /\ Unwrap(decoded).ok /\ IsRestOrAlb(Unwrap(decoded).event)

\* what a Rest event has and an Alb event has not: its source address and
\* its domainName
RestHasAlbHasNot(ev) ==
    IF IsRest(ev)
    THEN /\ source_ip(ev) = Some([family |-> "V4", addr |-> <<1, 2, 3, 4>>])
         /\ hostname(ev) = Some(DomainName)
    ELSE /\ IsAlb(ev)
         /\ source_ip(ev) = None
         /\ "domain_name" \notin DOMAIN ev.request_context

\* C24: within RestOrAlb an event is Rest exactly when its requestContext
\* contains identity, and Alb otherwise; a Rest event has its source IP and
\* its domainName, an Alb event has neither.
C24_RestIffIdentity ==
    DeserializedRestOrAlb =>
        LET c == Unwrap(Unwrap(payload).requestContext)
            ev == Unwrap(decoded).event
        IN  /\ IsRest(ev) <=> IsSome(c.identity)
            /\ RestHasAlbHasNot(ev)

\* C24, amended: within RestOrAlb an event is Rest exactly when its
\* requestContext contains domainName, path and an identity with a sourceIp,
\* and Alb otherwise (so also when identity is there and one of the others
\* is not); a Rest event has its source IP and its domainName, an Alb event
\* has neither.
C24_RestIffWholeContext ==
    DeserializedRestOrAlb =>
        LET c == Unwrap(Unwrap(payload).requestContext)
            ev == Unwrap(decoded).event
        IN  /\ IsRest(ev) <=> /\ IsSome(c.domainName)
                              /\ IsSome(c.path)
                              /\ IsSome(c.identity)
                              /\ IsSome(Unwrap(c.identity).sourceIp)
            /\ RestHasAlbHasNot(ev)

\* a document whose requestContext has domainName, path and identity has
\* been deserialized as a Rest event
C24_Witness ==
    /\ DeserializedRestOrAlb
    /\ IsSome(Unwrap(Unwrap(payload).requestContext).identity)
    /\ IsRest(Unwrap(decoded).event)
    /\ source_ip(Unwrap(decoded).event) # None

(***************************************************************************)
(* Properties of the codec read backwards                                  *)
(***************************************************************************)
\* C25: for every decoded path (with a space, a literal '%' or multi-byte
\* UTF-8 text too) percent-decoding the output of encode_path_query once
\* gives the path back exactly: the codec does not encode twice.
C25_DecodingOnceGivesPathBack ==
    HoldsV2Event =>
        PercentDecode(PathPart(path_and_query)) = Unwrap(event).raw_path

\* the path "/path%with/percent" has been encoded and decodes to itself
C25_Witness ==
    /\ HoldsV2Event
    /\ Unwrap(event).raw_path =
         <<47, 112, 97, 116, 104, 37, 119, 105, 116, 104, 47, 112, 101, 114, 99, 101, 110, 116>>
    /\ PathPart(path_and_query) # Unwrap(event).raw_path
    /\ PercentDecode(PathPart(path_and_query)) = Unwrap(event).raw_path

\* s has the bytes of part somewhere in it
Contains(s, part) ==
    \E i \in 1..(Len(s) - Len(part) + 1) : SubSeq(s, i, i + Len(part) - 1) = part

\* C26: when a key or a value of a RestOrAlb query map is encoded for the
\* query string, '/' and '?' are escaped besides what is escaped in a path:
\* no '/' and no '?' of a key or value is left in the query part, and the
\* value "x/y?z" comes out as "x%2Fy%3Fz".
C26_SlashAndQuestionEscaped ==
    HoldsQueryMap =>
        LET ev == Unwrap(event)
            params == Unwrap(ev.multi_value_query_string_parameters)
            query == QueryPart(ev)
        IN  /\ \A i \in 1..Len(query) : query[i] \notin {47, 63}
            /\ (KEY \in DOMAIN params /\ params[KEY] = << <<120, 47, 121, 63, 122>> >>)
                 => Contains(query, <<120, 37, 50, 70, 121, 37, 51, 70, 122>>)

\* C26, amended: a key or a value of a RestOrAlb query map is encoded with
\* the escape set of a path and nothing more: '?' is escaped, as it is in a
\* path, and '/' is left as it is; the value "x/y?z" comes out as "x/y%3Fz".
C26_QueryEscapedAsPath ==
    HoldsQueryMap =>
        LET ev == Unwrap(event)
            params == Unwrap(ev.multi_value_query_string_parameters)
            query == QueryPart(ev)
        IN  /\ \A i \in 1..Len(query) : query[i] # 63
            /\ ~Contains(query, <<37, 50, 70>>)                                  \* no %2F
            /\ (\E k \in DOMAIN params : 47 \in Range(k) \/ \E j \in 1..Len(params[k]) : 47 \in Range(params[k][j]))
                 <=> 47 \in Range(query)
            /\ (KEY \in DOMAIN params /\ params[KEY] = << <<120, 47, 121, 63, 122>> >>)
                 => Contains(query, <<107, 101, 121, 61, 120, 47, 121, 37, 51, 70, 122>>)

\* the map with key: ["x/y?z"] has been put into the query string
C26_Witness ==
    /\ HoldsQueryMap
    /\ KEY \in DOMAIN Unwrap(Unwrap(event).multi_value_query_string_parameters)
    /\ Unwrap(Unwrap(event).multi_value_query_string_parameters)[KEY] = << <<120, 47, 121, 63, 122>> >>
    /\ Contains(QueryPart(Unwrap(event)), <<107, 101, 121, 61, 120, 47, 121, 37, 51, 70, 122>>)

(***************************************************************************)
(* Properties of the envelope as a whole                                   *)
(***************************************************************************)
\* call() has resolved to what the serializer made of a response whose body
\* could be read and compressed
Serialized ==
    /\ pc = "done"
    /\ IsSome(response)
    /\ ~Unwrap(response).body_err
    /\ Unwrap(response).brotli_err = None
    /\ Unwrap(result).ok

\* the body a brotli stream stands for
BrotliDecompress(stream) == SubSeq(stream, 2, Len(stream) - 1)

\* C27: for every framework response the envelope has the status code of the
\* response as statusCode, isBase64Encoded true, the header names of the
\* response unchanged, and a body that, base64-decoded (and
\* brotli-decompressed when content-encoding br was added), is the body of
\* the response byte for byte.
C27_ResponsePassedThrough ==
    Serialized =>
        LET r == Unwrap(response)
            env == Unwrap(result).value
            map == HeadersOf(env)
            added == /\ CONTENT_ENCODING \in DOMAIN map
                     /\ map[CONTENT_ENCODING] = IF "multiValueHeaders" \in DOMAIN env THEN <<BR>> ELSE BR
            bytes == Base64Decode(env.body)
        IN  /\ env.statusCode = r.status
            /\ env.isBase64Encoded = TRUE
            /\ \A k \in DOMAIN map :
                 \/ (added /\ k = CONTENT_ENCODING)
                 \/ \E i \in 1..Len(r.headers) : r.headers[i][1] = k
            /\ \A i \in 1..Len(r.headers) :
                 HeaderValueIsStr(r.headers[i][2]) =>
                     \/ \E k \in DOMAIN map : to_ascii_lowercase(k) = to_ascii_lowercase(r.headers[i][1])
                     \/ ("cookies" \in DOMAIN env /\ r.headers[i][2] \in Range(env.cookies))
            /\ bytes.ok
            /\ r.body = IF added THEN BrotliDecompress(bytes.bytes) ELSE bytes.bytes

\* a 404 response with the body "hi!" has been serialized with its body
\* compressed, and the body reads back
C27_Witness ==
    /\ Serialized
    /\ Unwrap(response).status = 404
    /\ Unwrap(response).body = <<104, 105, 33>>
    /\ Unwrap(result).value.statusCode = 404
    /\ CONTENT_ENCODING \in DOMAIN HeadersOf(Unwrap(result).value)
    /\ BrotliDecompress(Base64Decode(Unwrap(result).value.body).bytes) = <<104, 105, 33>>

C29_AllHeaderValuesInRequest ==
    (HoldsRestOrAlbEvent /\ pc = "awaiting" /\ binding \in {"hyper", "warp"}) =>
        LET mvh == Unwrap(event).multi_value_headers
        IN  \A k \in DOMAIN mvh :
                LET valid == IF HeaderNameParses(k) THEN SelectSeq(mvh[k], HeaderValueIsStr) ELSE <<>>
                IN  IF valid = <<>> THEN k \notin DOMAIN request.headers
                    ELSE /\ k \in DOMAIN request.headers
                         /\ <<request.headers[k]>> = valid

\* the (key, value) pair a key=value item of a query string is read as: the
\* item is split at its first '=' and both parts are percent-decoded
ReadItem(item) ==
    LET eq == FirstIndex(item, 61)
    IN  IF eq = 0 THEN <<PercentDecode(item), <<>> >>
        ELSE <<PercentDecode(SubSeq(item, 1, eq - 1)), PercentDecode(Drop(item, eq))>>

\* the pairs a query string is read as, in its order
ReadQuery(query) ==
    LET items == Split(query, 38)
    IN  [i \in 1..Len(items) |-> ReadItem(items[i])]

\* the (key, value) pairs of a query map, keys in the order korder
PairsOf(params, korder) ==
    Concat([i \in 1..Len(korder) |->
        [j \in 1..Len(params[korder[i]]) |-> <<korder[i], params[korder[i]][j]>>]])

\* C30: for every RestOrAlb event, splitting the query string of path_query()
\* on '&', every item on its first '=' and percent-decoding both parts gives
\* back the (key, value) pairs of multiValueQueryStringParameters, each as
\* often as the map has it, also when a key or value holds '&', '=' or '+'.
C30_QueryReadsBackAsMap ==
    HoldsQueryMap =>
        LET ev == Unwrap(event)
            params == Unwrap(ev.multi_value_query_string_parameters)
        IN  \E korder \in Orders(DOMAIN params) :
                ReadQuery(QueryPart(ev)) = PairsOf(params, korder)

=============================================================================
